---- MODULE Spec2Model ----
(***************************************************************************)
(* A model of the intake-routing-engine integrity substrate:               *)
(*   - the hash-chained audit log       (ieim/audit/file_audit_log.py)     *)
(*   - the content-addressed raw store  (ieim/raw_store.py,                *)
(*                                       ieim/store/s3_object_store.py)    *)
(*   - the ingest runner                (ieim/pipeline/p1_ingest_...py)    *)
(*   - the stage runners' artifact writes (ieim/pipeline/p3..p5)           *)
(*   - the case adapter and case stage  (ieim/case_adapter/*.py)           *)
(*                                                                         *)
(* Each component has its own specification over its own variables; the    *)
(* other components' variables are left unchanged by it.                   *)
(*                                                                         *)
(* sha256 is modelled as a collision-free constructor: Sha256(x) is the    *)
(* pair <<"sha256", x>>, so two digests are equal exactly when the hashed  *)
(* values are equal.                                                       *)
(***************************************************************************)
EXTENDS Integers, Sequences, FiniteSets, TLC

VARIABLES
    \* ---- audit log: one (message_id, run_id) file ----
    auditFile,   \* the lines of audit/<message_id>/<run_id>.jsonl, in file order
    apc,         \* per writer: position inside FileAuditLogger.append
    aprev,       \* per writer: the prev_hash local of append
    aevent,      \* per writer: the event dict passed to append
    \* ---- raw store on a local filesystem: raw_store/<kind>/<hex_sha256><ext> ----
    pathIno,     \* per blob key: the inode linked at the target path (0: no file)
    tmpIno,      \* per blob key: the inode linked at <target>.tmp (0: no file)
    inoData,     \* per blob key and inode: the bytes the inode holds
    spc,         \* per writer: position inside FileRawStore.put_bytes
    skey,        \* per writer: the data of the put in progress
    sfd,         \* per writer: the inode its open tmp file descriptor refers to
    sres,        \* per writer: how its last put_bytes ended
    \* ---- raw store on S3 ----
    s3Obj,       \* per blob key: the object's body and its sha256 metadata
    lastPut,     \* the last completed put_bytes: what it found, how it ended
    \* ---- ingest runner ----
    mailbox,     \* adapter: the raw MIME behind each source_message_id
    cursorFile,  \* state/ingest_cursor.json (NULL: no file or cursor null)
    dedupeFile,  \* state/dedupe_state.json: processed raw-MIME digests
    normalized,  \* normalized/<message_id>.json per message id (NoRecord: no file)
    ingestAudit, \* audit/<message_id>/<run_id>.jsonl: the stages of its lines
    ingestRaw,   \* raw_store/mime: the blobs stored
    attArtifacts,\* attachments/<attachment_id>.artifact.json: the ids written
    lastTick,    \* the last run_once: what it returned, whether it raised
    edits,       \* how many times the source changed a message's bytes
    \* ---- stage runners (identity, classify/extract, routing) ----
    configFile,          \* the contents of the runtime config the runners load
    identityFiles,       \* identity/<message_id>.identity.json
    classificationFiles, \* classification/<message_id>.classification.json
    extractionFiles,     \* extraction/<message_id>.extraction.json
    routingFiles,        \* routing/<message_id>.routing.json
    draftFiles,          \* drafts/<message_id>.request_info.md
    stageRun,            \* the last runner's run(): its stage and how it ended
    \* ---- case adapter (InMemoryCaseAdapter) and case stage ----
    idempotency_index,   \* _idempotency_index: create key -> case id
    cases,               \* _cases: case id -> CaseRecord
    applied_keys,        \* _applied_keys: keys of the non-create operations seen
    lastCall,            \* the last adapter call or CaseStage.apply: what it was, how it ended
    \* ---- case adapter runner, on a normalized_dir holding one message ----
    caseFile,            \* case/<message_id>.case.json
    lastRun,             \* the last CaseAdapterRunner.run: how the stage and the run ended
    \* ---- routing evaluator ----
    routeRuleset,        \* the ruleset file at config.routing.ruleset_path
    routeIncident,       \* config.incident: force_review, block_case_create_risk_flags_any
    routeCtx,            \* the routing context read from identity and classification
    routeOut,            \* what evaluate_routing did with them
    \* HITL corrections
    reviewItem,          \* the bytes of the review item file
    correctionFiles,     \* corrections/<message_id>/<run_id>/<correction_id>.correction.json
    clock,               \* the wall clock, in seconds
    lastSubmit,          \* the last POST .../corrections and its response
    \* HITL review items and draft approvals
    routingFile,         \* routing/<message_id>.routing.json
    draftDir,            \* the drafts present in drafts_dir for the message
    rbacConfig,          \* rbac.role_mappings
    reviewRan,           \* HitlReviewItemsRunner.run has gone over the message
    reviewItemFile,      \* review_items/<queue_id>/<review_item_id>.review.json
    lastDraft,           \* the last POST .../drafts/<kind>/<action> and its response
    \* ---- attachment stage: raw_store/attachments, raw_store/attachment_text, attachments/ ----
    ocrProcessor,    \* AttachmentStage.ocr_processor: "none" or "tesseract"
    rawAttachments,  \* sha256 of the objects under raw_store/attachments
    attachmentText,  \* sha256 of the objects under raw_store/attachment_text
    artifactFiles,   \* attachments/<attachment_id>.artifact.json, per attachment id
    textPuts,        \* history: <<attachment_id, sha256>> of every attachment_text put
    lastProcessed,   \* the last process_message call: message and scanner verdicts
    \* ---- gated LLM fallback: p4 stage, LLM adapter, cache and daily counter ----
    llmConfig,          \* the IEIMConfig fields the gate and the adapter read
    llmDet,             \* per message: what the deterministic classifier and extractor produce
    llmToday,           \* DailyCallCounter._today()
    dailyCalls,         \* usage/daily_calls.json: by_date
    providerCalls,      \* history: chat_json calls made, per day
    llmCache,           \* cache/<provider>/<stage>/<hex>.json, per cache key
    llmClassification,  \* <message_id>.classification.json, per message
    llmExtraction,      \* <message_id>.extraction.json, per message
    wpc,                \* per worker: "idle", or "provider" while chat_json is in flight
    wctx,               \* per worker: the locals of ClassifyExtractRunner.run and LLMAdapter._call
    lastLlmPut,         \* history: the last FileLLMCache.put
    lastP4,             \* history: the last message a run finished
    \* ---- audit verification: one audit/<message_id>/<run_id>.jsonl and the verify command ----
    verifyLog,     \* the lines of the file, in file order
    tamper,        \* history: the line and field edited in place, line 0 for none
    verification,  \* the last run of the verify command over the file as it stands
    \* ---- reprocess job: ieim/pipeline/p6_reprocess.py ----
    rpRawFile,     \* the raw MIME file under raw_mime_uri: NULL, or <<bytes>>
    rpTextFile,    \* the extracted text file of the attachment: NULL, or <<text>>
    rpAttachments, \* the attachment artifacts of the normalized message
    rpConfig,      \* the configuration the stages load now
    rpRunDir,      \* files of out_dir/reprocess/<message_id>/<reprocess_run_id>
    rpAuditLog,    \* stages of the audit events appended under the run directory
    rpRuns,        \* number of runs of the job so far
    rpLast,        \* history: inputs, steps and outcome of the last run of the job
    \* ---- pipeline orchestration: cmd_demo_run of ieimctl.py over the stage runners ----
    plNeedsReview, \* per message: whether its routing decision demands a review item
    plPc,          \* where the run is: runner, message, step of the runner, status
    plFiles,       \* per message and stage: "none", "tmp" (only <file>.tmp), "file"
    plAudit,       \* per message: the events of audit/<message_id>/<run_id>.jsonl
    plTrace,       \* history: per message the steps taken, in order
    \* ---- identity resolver: ieim/identity/resolver.py ----
    idConfig,      \* the IdentityConfig the resolver was built with
    idInput,       \* what the message and the adapters give: hits, records, CRM link
    idResult,      \* the result of the last resolve, NoIdentity before it
    \* raw retention job
    rtNow,          \* the day the job or an ingest runs on
    rtMessages,     \* normalized/*.json: the records of the ingested messages
    rtStore,        \* the objects present in the raw store and the derived store
    rtLast,         \* the report of the last retention run
    \* daily call counter under concurrent callers
    ctrMax,         \* max_calls_per_day of the configuration
    ctrFile,        \* usage/daily_calls.json: the count stored for today
    ctrTmp,         \* usage/daily_calls.json.tmp, NULL while it does not exist
    ctrPc,          \* the statement each caller of LLMAdapter._call is at
    ctrRead,        \* the count each caller loaded in consume
    ctrConsumed,    \* the number of consume calls that returned
    ctrCalls,       \* the number of provider calls made today
    \* paging of the mail adapters
    pgCursor,       \* per adapter, the cursor the last list_message_refs returned
    pgSeen,         \* per adapter, the refs returned so far, in order
    pgLimits,       \* per adapter, the limits the calls so far have passed
    \* RabbitMQ broker
    bkMax,          \* RabbitMQConfig.max_attempts
    bkQueue,        \* the work queue at the server: bodies with their x-ieim-attempt header
    bkDlq,          \* the dead-letter queue <queue>__dlq at the server
    bkUnacked,      \* the deliveries the server holds unacknowledged
    bkInflight,     \* RabbitMQBroker._inflight
    bkTag,          \* the delivery tag the channel hands out next
    bkPc,           \* the delivery a nack has republished and not yet acked, or NULL
    bkHist          \* history per body: published, attempts delivered, how deliveries ended

auditVars == <<auditFile, apc, aprev, aevent>>
storeVars == <<pathIno, tmpIno, inoData, spc, skey, sfd, sres, s3Obj, lastPut>>

ingestVars == <<mailbox, cursorFile, dedupeFile, normalized, ingestAudit, ingestRaw,
                attArtifacts, lastTick, edits>>

stageVars == <<configFile, identityFiles, classificationFiles, extractionFiles,
               routingFiles, draftFiles, stageRun>>

caseVars == <<idempotency_index, cases, applied_keys, lastCall>>

runnerVars == <<caseFile, lastRun>>

routeVars == <<routeRuleset, routeIncident, routeCtx, routeOut>>

hitlVars == <<reviewItem, correctionFiles, clock, lastSubmit>>

reviewVars == <<routingFile, draftDir, rbacConfig, reviewRan, reviewItemFile, lastDraft>>

attachVars == <<ocrProcessor, rawAttachments, attachmentText, artifactFiles, textPuts,
                lastProcessed>>

llmVars == <<llmConfig, llmDet, llmToday, dailyCalls, providerCalls, llmCache, llmClassification, llmExtraction, wpc, wctx, lastLlmPut, lastP4>>

verifyVars == <<verifyLog, tamper, verification>>

reprocessVars == <<rpRawFile, rpTextFile, rpAttachments, rpConfig, rpRunDir, rpAuditLog, rpRuns, rpLast>>

pipelineVars == <<plNeedsReview, plPc, plFiles, plAudit, plTrace>>

identityVars == <<idConfig, idInput, idResult>>

retentionVars == <<rtNow, rtMessages, rtStore, rtLast>>

counterVars == <<ctrMax, ctrFile, ctrTmp, ctrPc, ctrRead, ctrConsumed, ctrCalls>>

pagingVars == <<pgCursor, pgSeen, pgLimits>>

brokerVars == <<bkMax, bkQueue, bkDlq, bkUnacked, bkInflight, bkTag, bkPc, bkHist>>

vars == <<auditVars, storeVars, ingestVars, stageVars,
         caseVars, runnerVars, routeVars, hitlVars, reviewVars, attachVars, llmVars, verifyVars, reprocessVars, pipelineVars, identityVars, retentionVars, counterVars, pagingVars, brokerVars>>

\* What each component leaves alone.
notAudit == <<storeVars, ingestVars, stageVars, caseVars, runnerVars, routeVars, hitlVars, reviewVars, attachVars, llmVars, verifyVars, reprocessVars, pipelineVars, identityVars, retentionVars, counterVars, pagingVars, brokerVars>>
notStore == <<auditVars, ingestVars, stageVars, caseVars, runnerVars, routeVars, hitlVars, reviewVars, attachVars, llmVars, verifyVars, reprocessVars, pipelineVars, identityVars, retentionVars, counterVars, pagingVars, brokerVars>>
notIngest == <<auditVars, storeVars, stageVars, caseVars, runnerVars, routeVars, hitlVars, reviewVars, attachVars, llmVars, verifyVars, reprocessVars, pipelineVars, identityVars, retentionVars, counterVars, pagingVars, brokerVars>>
notStage == <<auditVars, storeVars, caseVars, runnerVars, routeVars, hitlVars, reviewVars, attachVars, llmVars, verifyVars, reprocessVars, pipelineVars, identityVars, retentionVars, counterVars, pagingVars, brokerVars>>
notCase == <<auditVars, storeVars, ingestVars, stageVars, runnerVars, routeVars, hitlVars, reviewVars, attachVars, llmVars, verifyVars, reprocessVars, pipelineVars, identityVars, retentionVars, counterVars, pagingVars, brokerVars>>
notRoute == <<auditVars, storeVars, ingestVars, stageVars, caseVars, runnerVars, hitlVars, reviewVars, attachVars, llmVars, verifyVars, reprocessVars, pipelineVars, identityVars, retentionVars, counterVars, pagingVars, brokerVars>>
notHitl == <<storeVars, ingestVars, stageVars, caseVars, runnerVars, routeVars, reviewVars, attachVars, llmVars, verifyVars, reprocessVars, pipelineVars, identityVars, retentionVars, counterVars, pagingVars, brokerVars>>
notReview == <<storeVars, ingestVars, stageVars, caseVars, runnerVars, routeVars, attachVars, llmVars, verifyVars, reprocessVars, pipelineVars, identityVars, retentionVars, counterVars, pagingVars, brokerVars>>
notAttach == <<auditVars, storeVars, ingestVars, stageVars, caseVars, runnerVars, routeVars, hitlVars, reviewVars, llmVars, verifyVars, reprocessVars, pipelineVars, identityVars, retentionVars, counterVars, pagingVars, brokerVars>>
notLlm == <<auditVars, storeVars, ingestVars, stageVars, caseVars, runnerVars, routeVars, hitlVars, reviewVars, attachVars, verifyVars, reprocessVars, pipelineVars, identityVars, retentionVars, counterVars, pagingVars, brokerVars>>
notVerify == <<auditVars, storeVars, ingestVars, stageVars, caseVars, runnerVars, routeVars, hitlVars, reviewVars, attachVars, llmVars, reprocessVars, pipelineVars, identityVars, retentionVars, counterVars, pagingVars, brokerVars>>
notReprocess == <<auditVars, storeVars, ingestVars, stageVars, caseVars, runnerVars, routeVars, hitlVars, reviewVars, attachVars, llmVars, verifyVars, pipelineVars, identityVars, retentionVars, counterVars, pagingVars, brokerVars>>
notPipeline == <<auditVars, storeVars, ingestVars, stageVars, caseVars, runnerVars, routeVars, hitlVars, reviewVars, attachVars, llmVars, verifyVars, reprocessVars, identityVars, retentionVars, counterVars, pagingVars, brokerVars>>
notIdentity == <<auditVars, storeVars, ingestVars, stageVars, caseVars, runnerVars, routeVars, hitlVars, reviewVars, attachVars, llmVars, verifyVars, reprocessVars, pipelineVars, retentionVars, counterVars, pagingVars, brokerVars>>
notRetention == <<auditVars, storeVars, ingestVars, stageVars, caseVars, runnerVars, routeVars, hitlVars, reviewVars, attachVars, llmVars, verifyVars, reprocessVars, pipelineVars, identityVars, counterVars, pagingVars, brokerVars>>
notCounter == <<auditVars, storeVars, ingestVars, stageVars, caseVars, runnerVars, routeVars, hitlVars, reviewVars, attachVars, llmVars, verifyVars, reprocessVars, pipelineVars, identityVars, retentionVars, pagingVars, brokerVars>>
notPaging == <<auditVars, storeVars, ingestVars, stageVars, caseVars, runnerVars, routeVars, hitlVars, reviewVars, attachVars, llmVars, verifyVars, reprocessVars, pipelineVars, identityVars, retentionVars, counterVars, brokerVars>>
notBroker == <<auditVars, storeVars, ingestVars, stageVars, caseVars, runnerVars, routeVars, hitlVars, reviewVars, attachVars, llmVars, verifyVars, reprocessVars, pipelineVars, identityVars, retentionVars, counterVars, pagingVars>>

(***************************************************************************)
(* Shared helpers                                                          *)
(***************************************************************************)

\* Python's None where a hash string may stand: the empty tuple.
NULL == <<>>

\* ieim/raw_store.py sha256_prefixed: "sha256:" + hexdigest, collision-free.
Sha256(x) == <<"sha256", x>>

(***************************************************************************)
(* Audit log                                                               *)
(***************************************************************************)

\* Bounds of the audit model.
MaxAuditLen == 4
NumWriters == 2

Writers == 1..NumWriters
AuditStages == {"INGEST", "NORMALIZE"}

\* build_audit_event: the event as handed to append, with prev_event_hash None
\* and the all-zero placeholder event_hash.
ZeroHash == Sha256(NULL)

build_audit_event(stage, actor) ==
    [stage |-> stage, actor |-> actor, prev_event_hash |-> NULL, event_hash |-> ZeroHash]

\* _canonical_json_bytes of the event without its event_hash key: the
\* remaining fields in sorted key order.
CanonicalEventNoHash(e) == [k \in DOMAIN e \ {"event_hash"} |-> e[k]]

\* _event_hash
EventHash(e) == Sha256(CanonicalEventNoHash(e))

\* append, lines 126-136: the event_hash of the last non-empty line, or None.
ReadLastHash_First(file) ==
    IF Len(file) = 0 THEN NULL ELSE file[1].event_hash

ReadLastHash(file) ==
    IF Len(file) = 0 THEN NULL ELSE file[Len(file)].event_hash

\* append, lines 138-140: set prev_event_hash, then event_hash.
SealEvent(e, prev) ==
    LET e1 == [e EXCEPT !.prev_event_hash = prev]
    IN  [e1 EXCEPT !.event_hash = EventHash(e1)]

\* FileAuditLogger.append, run without interruption (one caller).
AuditAppend(w, stage) ==
    /\ Len(auditFile) < MaxAuditLen
    /\ apc[w] = "idle"
    /\ auditFile' = Append(auditFile, SealEvent(build_audit_event(stage, w), ReadLastHash(auditFile)))
    /\ UNCHANGED <<apc, aprev, aevent, notAudit>>

\* FileAuditLogger.append, first half: read the file and keep the last
\* line's event_hash in prev_hash.  Nothing is locked.
AppendReadLast(w, stage) ==
    /\ Len(auditFile) < MaxAuditLen
    /\ apc[w] = "idle"
    /\ aprev' = [aprev EXCEPT ![w] = ReadLastHash(auditFile)]
    /\ aevent' = [aevent EXCEPT ![w] = build_audit_event(stage, w)]
    /\ apc' = [apc EXCEPT ![w] = "read"]
    /\ UNCHANGED <<auditFile, notAudit>>

\* FileAuditLogger.append, second half: seal the event and append the line.
AppendWriteLine(w) ==
    /\ apc[w] = "read"
    /\ auditFile' = Append(auditFile, SealEvent(aevent[w], aprev[w]))
    /\ apc' = [apc EXCEPT ![w] = "idle"]
    /\ UNCHANGED <<aprev, aevent, notAudit>>

InitAudit ==
    /\ auditFile = <<>>
    /\ apc = [w \in Writers |-> "idle"]
    /\ aprev = [w \in Writers |-> NULL]
    /\ aevent = [w \in Writers |-> build_audit_event("INGEST", w)]

\* One caller at a time: every append runs to completion.
NextAuditSeq ==
    \E w \in Writers, s \in AuditStages : AuditAppend(w, s)

\* Several callers (stage runners, the API's HITL service) on one file.
NextAuditConc ==
    \/ \E w \in Writers, s \in AuditStages : AppendReadLast(w, s)
    \/ \E w \in Writers : AppendWriteLine(w)

\* C1: after any sequence of append calls, line 1 has prev_event_hash null,
\* every later line's prev_event_hash is the event_hash of the line before
\* it, and every line's event_hash is sha256 of the canonical JSON of the
\* event without its event_hash.
C1_ChainIntegrity ==
    /\ Len(auditFile) >= 1 => auditFile[1].prev_event_hash = NULL
    /\ \A L \in 2..Len(auditFile) :
          auditFile[L].prev_event_hash = auditFile[L-1].event_hash
    /\ \A L \in 1..Len(auditFile) :
          auditFile[L].event_hash = EventHash(auditFile[L])

C1_Witness ==
    /\ Len(auditFile) = 3
    /\ auditFile[3].prev_event_hash = auditFile[2].event_hash
    /\ auditFile[3].prev_event_hash # auditFile[1].event_hash

\* C2: with several writers appending concurrently, in every interleaving
\* each event's prev_event_hash is the event_hash of the line directly
\* before it, and no two events share the same predecessor.
C2_ConcurrentChainLinked ==
    /\ \A L \in 2..Len(auditFile) :
          auditFile[L].prev_event_hash = auditFile[L-1].event_hash
    /\ \A L1, L2 \in 1..Len(auditFile) :
          L1 # L2 => auditFile[L1].prev_event_hash # auditFile[L2].prev_event_hash

(***************************************************************************)
(* Content-addressed raw store                                             *)
(***************************************************************************)

\* Bound: the number of distinct byte strings that are put.
NumBlobs == 2

\* The byte strings b"..." of the model, told apart by number.  A target
\* path raw_store/<kind>/<hex_sha256><ext> is named by the blob whose
\* digest it carries.
Blobs == 1..NumBlobs

\* File contents: no file, a file truncated by open(..., "wb") and not yet
\* written, or the bytes of a blob.
ABSENT == 0
EMPTY == -1

\* rel = Path("raw_store") / kind / (hex_hash + ext), for kind "mime", ".eml"
PutUri(k) == <<"raw_store", "mime", Sha256(k), ".eml">>

\* path.read_bytes() of the target of blob k (ABSENT when not path.exists()).
PathContent(k) ==
    IF pathIno[k] = 0 THEN ABSENT ELSE inoData[k][pathIno[k]]

NoPut == [store |-> "none", key |-> 0, pre |-> ABSENT, result |-> "none", post |-> ABSENT]

\* put_bytes lines 46-50: the target exists; compare digests.
ExistingMatches_Unchecked(existing, k) == TRUE

ExistingMatches(existing, k) == Sha256(existing) = Sha256(k)

\* FileRawStore.put_bytes, run without interruption.
FilePut(w, k) ==
    /\ spc[w] = "idle"
    /\ LET pre == PathContent(k) IN
       IF pre # ABSENT
       THEN /\ UNCHANGED <<pathIno, inoData>>
            /\ lastPut' = [store |-> "file", key |-> k, pre |-> pre,
                           result |-> IF ExistingMatches(pre, k)
                                      THEN "ok" ELSE "IMMUTABILITY_VIOLATION",
                           post |-> pre]
       ELSE /\ pathIno' = [pathIno EXCEPT ![k] = w]
            /\ inoData' = [inoData EXCEPT ![k][w] = k]
            /\ lastPut' = [store |-> "file", key |-> k, pre |-> pre,
                           result |-> "ok", post |-> k]
    /\ UNCHANGED <<tmpIno, spc, skey, sfd, sres, s3Obj, notStore>>

\* Something other than the store rewrites an existing object in place
\* (tests/test_raw_store.py line 31: path.write_bytes(b"def")).
FileTamper(k, b) ==
    /\ pathIno[k] # 0
    /\ b # PathContent(k)
    /\ inoData' = [inoData EXCEPT ![k][pathIno[k]] = b]
    /\ UNCHANGED <<pathIno, tmpIno, spc, skey, sfd, sres, s3Obj, lastPut, notStore>>

\* S3ObjectStore.put_bytes.  headOk = FALSE: head_object raised although
\* the object exists (any exception is taken for "no such object").
S3Put(k, headOk) ==
    LET obj == s3Obj[k]
        found == obj.body # ABSENT /\ headOk
    IN
    /\ IF found
       THEN IF obj.meta # 0 /\ Sha256(obj.meta) # Sha256(k)
            THEN /\ UNCHANGED s3Obj
                 /\ lastPut' = [store |-> "s3", key |-> k, pre |-> obj.body,
                                result |-> "IMMUTABILITY_VIOLATION", post |-> obj.body]
            ELSE /\ UNCHANGED s3Obj
                 /\ lastPut' = [store |-> "s3", key |-> k, pre |-> obj.body,
                                result |-> "ok", post |-> obj.body]
       ELSE /\ s3Obj' = [s3Obj EXCEPT ![k] = [body |-> k, meta |-> k]]
            /\ lastPut' = [store |-> "s3", key |-> k, pre |-> obj.body,
                           result |-> "ok", post |-> k]
    /\ UNCHANGED <<pathIno, tmpIno, inoData, spc, skey, sfd, sres, notStore>>

\* Another S3 client rewrites an existing object: any body, with sha256
\* metadata m (0: none).
S3ForeignPut(k, b, m) ==
    /\ s3Obj[k].body # ABSENT
    /\ b # s3Obj[k].body
    /\ s3Obj' = [s3Obj EXCEPT ![k] = [body |-> b, meta |-> m]]
    /\ UNCHANGED <<pathIno, tmpIno, inoData, spc, skey, sfd, sres, lastPut, notStore>>

(* FileRawStore.put_bytes step by step, for several writers. *)

\* lines 38-50: hash, path.exists(), and the branch taken when it does.
PutCheck(w, k) ==
    /\ spc[w] = "idle"
    /\ skey' = [skey EXCEPT ![w] = k]
    /\ IF PathContent(k) # ABSENT
       THEN /\ sres' = [sres EXCEPT ![w] =
                   [outcome |-> IF ExistingMatches(PathContent(k), k)
                                THEN "ok" ELSE "IMMUTABILITY_VIOLATION",
                    key |-> k, uri |-> PutUri(k)]]
            /\ UNCHANGED spc
       ELSE /\ spc' = [spc EXCEPT ![w] = "open"]
            /\ UNCHANGED sres
    /\ UNCHANGED <<pathIno, tmpIno, inoData, sfd, s3Obj, lastPut, notStore>>

\* line 53, tmp.write_bytes: open(tmp, "wb") creates the file or truncates
\* the one that is there.
PutOpenTmp(w) ==
    /\ spc[w] = "open"
    /\ LET k == skey[w]
           ino == IF tmpIno[k] = 0 THEN w ELSE tmpIno[k]
       IN  /\ tmpIno' = [tmpIno EXCEPT ![k] = ino]
           /\ inoData' = [inoData EXCEPT ![k][ino] = EMPTY]
           /\ sfd' = [sfd EXCEPT ![w] = ino]
    /\ spc' = [spc EXCEPT ![w] = "write"]
    /\ UNCHANGED <<pathIno, skey, sres, s3Obj, lastPut, notStore>>

\* line 53, tmp.write_bytes: write the data through the open descriptor.
PutWriteTmp(w) ==
    /\ spc[w] = "write"
    /\ inoData' = [inoData EXCEPT ![skey[w]][sfd[w]] = skey[w]]
    /\ spc' = [spc EXCEPT ![w] = "replace"]
    /\ UNCHANGED <<pathIno, tmpIno, skey, sfd, sres, s3Obj, lastPut, notStore>>

\* lines 54-55: tmp.replace(path); FileNotFoundError when tmp is gone.
PutReplace(w) ==
    /\ spc[w] = "replace"
    /\ LET k == skey[w] IN
       IF tmpIno[k] = 0
       THEN /\ sres' = [sres EXCEPT ![w] =
                   [outcome |-> "FileNotFoundError", key |-> k, uri |-> NULL]]
            /\ UNCHANGED <<pathIno, tmpIno>>
       ELSE /\ pathIno' = [pathIno EXCEPT ![k] = tmpIno[k]]
            /\ tmpIno' = [tmpIno EXCEPT ![k] = 0]
            /\ sres' = [sres EXCEPT ![w] =
                   [outcome |-> "ok", key |-> k, uri |-> PutUri(k)]]
    /\ spc' = [spc EXCEPT ![w] = "idle"]
    /\ UNCHANGED <<inoData, skey, sfd, s3Obj, lastPut, notStore>>

InitStore ==
    /\ pathIno = [k \in Blobs |-> 0]
    /\ tmpIno = [k \in Blobs |-> 0]
    /\ inoData = [k \in Blobs |-> [i \in Writers |-> EMPTY]]
    /\ spc = [w \in Writers |-> "idle"]
    /\ skey = [w \in Writers |-> 1]
    /\ sfd = [w \in Writers |-> 0]
    /\ sres = [w \in Writers |-> [outcome |-> "none", key |-> 0, uri |-> NULL]]
    /\ s3Obj = [k \in Blobs |-> [body |-> ABSENT, meta |-> 0]]
    /\ lastPut = NoPut

\* One put at a time, on either store, among rewrites from outside.
NextStoreSeq ==
    \/ \E w \in Writers, k \in Blobs : FilePut(w, k)
    \/ \E k \in Blobs, b \in Blobs : FileTamper(k, b)
    \/ \E k \in Blobs, headOk \in BOOLEAN : S3Put(k, headOk)
    \/ \E k \in Blobs, b \in Blobs, m \in 0..NumBlobs : S3ForeignPut(k, b, m)

\* Several writers putting into the file store; nothing else touches it.
NextStoreConc ==
    \/ \E w \in Writers, k \in Blobs : PutCheck(w, k)
    \/ \E w \in Writers : PutOpenTmp(w)
    \/ \E w \in Writers : PutWriteTmp(w)
    \/ \E w \in Writers : PutReplace(w)

\* C3: a put whose target already exists with bytes different from the
\* bytes being put fails with IMMUTABILITY_VIOLATION and leaves the
\* existing object as it was.
C3_MismatchFailsAndKeeps ==
    (lastPut.result # "none" /\ lastPut.pre # ABSENT /\ lastPut.pre # lastPut.key)
        => (lastPut.result = "IMMUTABILITY_VIOLATION" /\ lastPut.post = lastPut.pre)

\* The same statement for the filesystem store alone.
FileStoreMismatchFailsAndKeeps ==
    lastPut.store = "file" => C3_MismatchFailsAndKeeps

\* C5: for any interleaving of puts of the same bytes, every put returns
\* (the same uri and sha256), and once a put has returned, a get of that
\* uri yields exactly those bytes.
C5_PutsReturnAndReadable ==
    \A w \in Writers :
        sres[w].outcome # "none" =>
            /\ sres[w].outcome = "ok"
            /\ sres[w].uri = PutUri(sres[w].key)
            /\ PathContent(sres[w].key) = sres[w].key

\* Every put returns (no writer's put ends in an exception).
EveryPutReturns ==
    \A w \in Writers : sres[w].outcome \in {"none", "ok"}

\* Once a put has returned, the object holds exactly the bytes put.
ReturnedPutReadable ==
    \A w \in Writers :
        sres[w].outcome = "ok" => PathContent(sres[w].key) = sres[w].key

(***************************************************************************)
(* Ingest runner                                                           *)
(***************************************************************************)

\* Bound: the number of messages the mail source holds.
NumMsgs == 2

\* source_message_id values, in the adapter's listing order.
SourceIds == 1..NumMsgs

\* cursor values: None (0 here, below every id) or the last id returned.
NoCursor == 0

\* No normalized/<message_id>.json.
NoRecord == [raw |-> ABSENT, run |-> NULL]

\* _derive_message_id: the source id itself when it is a UUID, else its
\* uuid5 under the ingestion source; one message id per source id.
MessageId(src) == <<"M365_GRAPH", src>>

\* run_id = uuid5("run:{message_id}:{raw_sha}")
RunId(mid, raw) == <<"run", mid, Sha256(raw)>>

\* The attachments the adapter lists for a message (the first message of the
\* corpus carries one, the others none).
AttachmentsOf(src) == IF src = 1 THEN {<<"att", MessageId(src)>>} ELSE {}

\* FilesystemMailIngestAdapter.list_message_refs
ListRefs(cursor, limit) ==
    LET ids == {i \in SourceIds : i > cursor}
        n == IF Cardinality(ids) < limit THEN Cardinality(ids) ELSE limit
    IN  [i \in 1..n |-> cursor + i]

NewCursor(cursor, refs) ==
    IF Len(refs) > 0 THEN refs[Len(refs)] ELSE cursor

\* Where the processing of a ref may raise: the adapter's fetch, the
\* attachment stage, the normalizer, and the audit appends that follow the
\* write of the normalized record.
FailPhases == {"fetch", "attachments", "normalize", "audit_ingest", "audit_normalize"}

\* The audit events appended for a newly normalized message, lines 184-227,
\* up to the append that raises in the given phase.
IngestEvents(src, phase) ==
    IF phase = "audit_ingest" THEN <<>>
    ELSE IF phase = "audit_normalize" THEN <<"INGEST">>
    ELSE <<"INGEST", "NORMALIZE">> \o
         [i \in 1..Cardinality(AttachmentsOf(src)) |-> "ATTACHMENTS"]

\* lines 158-160: the normalized record is there already.
RecordExists_Never(st, mid) == FALSE

RecordExists(st, mid) == st.norm[mid] # NoRecord

\* line 87: the raw digest is in the dedupe set.
AlreadyProcessed_Never(st, raw) == FALSE

AlreadyProcessed(st, raw) == Sha256(raw) \in st.dedupe

\* The body of the for loop of run_once (lines 83-230) for one ref, on the
\* runner's view st of the stores; phase names where it raises ("none": it
\* does not).
ProcessRef(st, src, phase) ==
    LET raw == mailbox[src]
        mid == MessageId(src)
        run == RunId(mid, raw)
    IN
    IF phase = "fetch" THEN [st EXCEPT !.failed = TRUE]
    ELSE IF AlreadyProcessed(st, raw) THEN st
    ELSE
    LET st1 == [st EXCEPT !.rawStore = @ \cup {raw}] IN
    IF phase = "attachments" THEN [st1 EXCEPT !.failed = TRUE]
    ELSE
    LET st2 == [st1 EXCEPT !.att = @ \cup AttachmentsOf(src)] IN
    IF phase = "normalize" THEN [st2 EXCEPT !.failed = TRUE]
    ELSE IF RecordExists(st2, mid)
    THEN [st2 EXCEPT !.dedupe = @ \cup {Sha256(raw)}]
    ELSE
    LET st3 == [st2 EXCEPT !.norm[mid] = [raw |-> raw, run |-> run],
                           !.audit[mid][raw] = @ \o IngestEvents(src, phase)]
    IN
    IF phase \in {"audit_ingest", "audit_normalize"}
    THEN [st3 EXCEPT !.failed = TRUE]
    ELSE [st3 EXCEPT !.dedupe = @ \cup {Sha256(raw)},
                     !.produced = Append(@, mid)]

\* The for loop over refs; the ref at position failIdx raises in failPhase.
RECURSIVE ProcessRefs(_, _, _, _, _)
ProcessRefs(st, refs, i, failIdx, failPhase) ==
    IF i > Len(refs) \/ st.failed THEN st
    ELSE ProcessRefs(
            ProcessRef(st, refs[i], IF i = failIdx THEN failPhase ELSE "none"),
            refs, i + 1, failIdx, failPhase)

\* What a failed tick leaves of the dedupe set and cursor it worked with.
PersistOnFailure_Write(st, cursor) == [dedupe |-> st.dedupe, cursor |-> cursor]

PersistOnFailure(st, cursor) == [dedupe |-> dedupeFile, cursor |-> cursorFile]

\* IngestNormalizeRunner.run_once(limit); failIdx = 0: no ref raises.
RunOnce(limit, failIdx, failPhase) ==
    LET refs == ListRefs(cursorFile, limit)
        st0 == [norm |-> normalized, audit |-> ingestAudit, rawStore |-> ingestRaw,
                att |-> attArtifacts, dedupe |-> dedupeFile, produced |-> <<>>,
                failed |-> FALSE]
        st == ProcessRefs(st0, refs, 1, failIdx, failPhase)
        kept == PersistOnFailure(st, NewCursor(cursorFile, refs))
    IN
    /\ failIdx <= Len(refs)
    /\ normalized' = st.norm
    /\ ingestAudit' = st.audit
    /\ ingestRaw' = st.rawStore
    /\ attArtifacts' = st.att
    /\ IF st.failed
       THEN /\ dedupeFile' = kept.dedupe
            /\ cursorFile' = kept.cursor
       ELSE /\ dedupeFile' = st.dedupe                       \* line 232
            /\ cursorFile' = NewCursor(cursorFile, refs)     \* line 233
    /\ lastTick' = [produced |-> st.produced, failed |-> st.failed]
    /\ UNCHANGED <<mailbox, edits, notIngest>>

\* The cursor file is rewritten from outside (an operator's reset, as in
\* tests/test_p1_ingest_normalize_e2e.py lines 75-76).
SetCursor(c) ==
    /\ c # cursorFile
    /\ cursorFile' = c
    /\ UNCHANGED <<mailbox, edits, dedupeFile, normalized, ingestAudit, ingestRaw,
                   attArtifacts, lastTick, notIngest>>

\* The source changes the bytes behind a source_message_id (a corpus file
\* is rewritten between ticks); modelled for one rewrite.
ModifyMail(src, b) ==
    /\ edits = 0
    /\ b # mailbox[src]
    /\ mailbox' = [mailbox EXCEPT ![src] = b]
    /\ edits' = edits + 1
    /\ UNCHANGED <<cursorFile, dedupeFile, normalized, ingestAudit, ingestRaw,
                   attArtifacts, lastTick, notIngest>>

MessageIds == {MessageId(src) : src \in SourceIds}

InitIngest ==
    /\ mailbox = [src \in SourceIds |-> IF src = NumMsgs /\ NumBlobs > 1 THEN 2 ELSE 1]
    /\ cursorFile = NoCursor
    /\ dedupeFile = {}
    /\ normalized = [m \in MessageIds |-> NoRecord]
    /\ ingestAudit = [m \in MessageIds |-> [b \in Blobs |-> <<>>]]
    /\ ingestRaw = {}
    /\ attArtifacts = {}
    /\ lastTick = [produced |-> <<>>, failed |-> FALSE]
    /\ edits = 0

NextIngest ==
    \/ \E limit \in 1..NumMsgs : RunOnce(limit, 0, "none")
    \/ \E limit \in 1..NumMsgs, i \in 1..NumMsgs, ph \in FailPhases : RunOnce(limit, i, ph)
    \/ \E c \in {NoCursor} \cup SourceIds : SetCursor(c)
    \/ \E src \in SourceIds, b \in Blobs : ModifyMail(src, b)

\* The normalized records built from raw MIME b.
RecordsOf(b) == {m \in MessageIds : normalized[m].raw = b}

\* How many events of a stage the audit files of raw MIME b hold.
RECURSIVE CountIn(_, _)
CountIn(seq, x) ==
    IF seq = <<>> THEN 0
    ELSE (IF seq[1] = x THEN 1 ELSE 0) + CountIn(Tail(seq), x)

RECURSIVE SumOver(_, _, _)
SumOver(ms, b, stage) ==
    IF ms = {} THEN 0
    ELSE LET m == CHOOSE x \in ms : TRUE
         IN  CountIn(ingestAudit[m][b], stage) + SumOver(ms \ {m}, b, stage)

EventsOf(b, stage) == SumOver(MessageIds, b, stage)

\* C6: across any ticks, failed and retried ones included, every raw MIME
\* the runner has recorded as processed has exactly one normalized record,
\* one INGEST and one NORMALIZE audit event; and none ever has more.
C6_ExactlyOnceNormalization ==
    \A b \in Blobs :
        /\ Cardinality(RecordsOf(b)) <= 1
        /\ EventsOf(b, "INGEST") <= 1
        /\ EventsOf(b, "NORMALIZE") <= 1
        /\ Sha256(b) \in dedupeFile =>
              /\ Cardinality(RecordsOf(b)) = 1
              /\ EventsOf(b, "INGEST") = 1
              /\ EventsOf(b, "NORMALIZE") = 1

\* C7: once a message has been ingested, no later tick writes a new
\* normalized record for byte-identical raw MIME, whatever the cursor.
C7_NoNewRecordForIngestedBytes ==
    [][\A b \in Blobs : RecordsOf(b) # {} => RecordsOf(b)' = RecordsOf(b)]_vars

\* A step of run_once, with or without a ref that raises.
IngestTick ==
    \E limit \in 1..NumMsgs, i \in 0..NumMsgs, ph \in FailPhases \cup {"none"} :
        RunOnce(limit, i, ph)

\* C37: a tick in which the processing of a ref raises changes neither the
\* dedupe file nor the cursor file, so the next tick reads the same cursor
\* and the same dedupe set; the normalized records and audit events the
\* tick had written before the raise remain.  A tick in which no ref
\* raises writes both files after its last ref.
C37_FailedTickKeepsStateFiles ==
    [][IngestTick =>
          /\ lastTick'.failed =>
                /\ dedupeFile' = dedupeFile
                /\ cursorFile' = cursorFile
                /\ ListRefs(cursorFile', NumMsgs) = ListRefs(cursorFile, NumMsgs)
          /\ ~lastTick'.failed =>
                \E limit \in 1..NumMsgs :
                    /\ cursorFile' = NewCursor(cursorFile, ListRefs(cursorFile, limit))
                    /\ dedupeFile \subseteq dedupeFile'
          /\ \A m \in MessageIds :
                /\ normalized[m] # NoRecord => normalized'[m] = normalized[m]
                /\ \A b \in Blobs :
                      SubSeq(ingestAudit'[m][b], 1, Len(ingestAudit[m][b])) = ingestAudit[m][b]]_vars

\* A failed tick has left a normalized record and an INGEST event behind,
\* and neither the digest in the dedupe file nor a cursor.
C37_Witness ==
    /\ lastTick.failed
    /\ cursorFile = NoCursor
    /\ dedupeFile = {}
    /\ \E m \in MessageIds, b \in Blobs :
          /\ normalized[m] = [raw |-> b, run |-> RunId(m, b)]
          /\ ingestAudit[m][b] = <<"INGEST">>

\* The runner's view of the stores at the start of a tick.
TickView ==
    [norm |-> normalized, audit |-> ingestAudit, rawStore |-> ingestRaw,
     att |-> attArtifacts, dedupe |-> dedupeFile, produced |-> <<>>, failed |-> FALSE]

\* The refs whose normalized record exists while their raw digest is not in
\* the dedupe set.
RecordWithoutDigest ==
    {src \in SourceIds :
        /\ normalized[MessageId(src)] # NoRecord
        /\ Sha256(mailbox[src]) \notin dedupeFile}

\* C38: for a ref whose normalized record exists and whose raw digest is
\* not in the dedupe set, the loop body leaves the record as it is, appends
\* no audit event, returns nothing as produced and adds the digest to the
\* dedupe set it works with, whether or not the ref's raw MIME is the one
\* the record was built from; a tick over such a ref leaves the record and
\* its audit files untouched, does not return it, and a tick that ends
\* without a raise persists the digest.
C38_ExistingRecordSkipped ==
    /\ [](\A src \in RecordWithoutDigest :
             LET st == ProcessRef(TickView, src, "none")
             IN  /\ st.norm = normalized
                 /\ st.audit = ingestAudit
                 /\ st.produced = <<>>
                 /\ ~st.failed
                 /\ st.dedupe = dedupeFile \cup {Sha256(mailbox[src])})
    /\ [][\A limit \in 1..NumMsgs, i \in 0..NumMsgs, ph \in FailPhases \cup {"none"} :
             RunOnce(limit, i, ph) =>
                \A k \in 1..Len(ListRefs(cursorFile, limit)) :
                    LET src == ListRefs(cursorFile, limit)[k]
                        mid == MessageId(src)
                    IN  src \in RecordWithoutDigest =>
                           /\ normalized'[mid] = normalized[mid]
                           /\ ingestAudit'[mid] = ingestAudit[mid]
                           /\ \A j \in 1..Len(lastTick'.produced) : lastTick'.produced[j] # mid
                           /\ ~lastTick'.failed => Sha256(mailbox[src]) \in dedupeFile']_vars

\* A tick has met a record built from other bytes than the ref now
\* carries: the record is unchanged, the new bytes have no audit event and
\* no record, and their digest is in the dedupe file.
C38_Witness ==
    /\ ~lastTick.failed
    /\ lastTick.produced = <<>>
    /\ \E src \in SourceIds :
          LET mid == MessageId(src) IN
          /\ normalized[mid] # NoRecord
          /\ normalized[mid].raw # mailbox[src]
          /\ Sha256(mailbox[src]) \in dedupeFile
          /\ ingestAudit[mid][mailbox[src]] = <<>>
          /\ RecordsOf(mailbox[src]) = {}

(***************************************************************************)
(* Stage runners: identity, classify/extract, routing                      *)
(*                                                                         *)
(* Each runner's run() walks normalized/*.json in sorted order and writes  *)
(* its artifact for every message it finds.  The runners are taken with    *)
(* their default audit_logger = None and obs_logger = None, and with the   *)
(* LLM gates closed.                                                       *)
(***************************************************************************)

\* The contents the runtime config file can have.
ConfigVersions == {"config_a", "config_b"}

\* No file at an artifact path.
NoArtifact == [kind |-> "none"]

\* load_config / load_identity_config: config_sha256 is the digest of the file.
config_sha256(cfg) == Sha256(cfg)

\* The source ids whose normalized record exists, i.e. what
\* sorted(normalized_dir.glob("*.json")) yields.
NormalizedSources == {src \in SourceIds : normalized[MessageId(src)] # NoRecord}

\* IdentityResolver.resolve: the status is a function of the message and of
\* the thresholds in the config; the decision hash covers the config digest.
IdentityStatus(raw, cfg) ==
    IF raw = 1 THEN "IDENTITY_CONFIRMED"
    ELSE IF cfg = "config_a" THEN "IDENTITY_NEEDS_REVIEW" ELSE "IDENTITY_PROBABLE"

IdentityResult(mid, nm, cfg) ==
    [kind |-> "identity", message_id |-> mid, run_id |-> nm.run,
     status |-> IdentityStatus(nm.raw, cfg),
     decision_hash |-> Sha256(<<"IDENTITY", nm.raw, config_sha256(cfg)>>)]

\* resolver.py lines 294-299: a request-info draft is rendered for these.
NeedsRequestInfo(status) ==
    status \in {"IDENTITY_NO_CANDIDATE", "IDENTITY_NEEDS_REVIEW"}

\* DeterministicClassifier.classify: labels from the message; the decision
\* hash covers the config digest.
ClassificationResult(mid, nm, cfg) ==
    [kind |-> "classification", message_id |-> mid, run_id |-> nm.run,
     labels |-> <<"labels", nm.raw>>,
     decision_hash |-> Sha256(<<"CLASSIFY", nm.raw, config_sha256(cfg)>>)]

\* DeterministicExtractor.extract: entities from the message.  Of the config
\* it reads only the IBAN policy, which the two config versions share.
ExtractionResult(mid, nm) ==
    [kind |-> "extraction", message_id |-> mid, run_id |-> nm.run,
     entities |-> <<"entities", nm.raw>>]

\* evaluate_routing: the decision hash covers the config digest and the
\* routing context read from the identity and classification artifacts.
RoutingDecision(mid, nm, cfg, identity, classification) ==
    [kind |-> "routing", message_id |-> mid, run_id |-> nm.run,
     decision_hash |-> Sha256(<<"ROUTE", nm.raw, config_sha256(cfg),
                                identity.status, classification.labels>>)]

\* IdentityResolutionRunner.run
IdentityRun ==
    /\ identityFiles' =
          [mid \in MessageIds |->
              IF normalized[mid] # NoRecord
              THEN IdentityResult(mid, normalized[mid], configFile)
              ELSE identityFiles[mid]]
    /\ draftFiles' =
          [mid \in MessageIds |->
              IF /\ normalized[mid] # NoRecord
                 /\ NeedsRequestInfo(IdentityStatus(normalized[mid].raw, configFile))
              THEN "request_info"
              ELSE draftFiles[mid]]
    /\ stageRun' = [stage |-> "IDENTITY", status |-> "OK"]
    /\ UNCHANGED <<configFile, classificationFiles, extractionFiles, routingFiles,
                   ingestVars, notStage>>

\* ClassifyExtractRunner.run
ClassifyExtractRun ==
    /\ classificationFiles' =
          [mid \in MessageIds |->
              IF normalized[mid] # NoRecord
              THEN ClassificationResult(mid, normalized[mid], configFile)
              ELSE classificationFiles[mid]]
    /\ extractionFiles' =
          [mid \in MessageIds |->
              IF normalized[mid] # NoRecord
              THEN ExtractionResult(mid, normalized[mid])
              ELSE extractionFiles[mid]]
    /\ stageRun' = [stage |-> "CLASSIFY", status |-> "OK"]
    /\ UNCHANGED <<configFile, identityFiles, routingFiles, draftFiles,
                   ingestVars, notStage>>

\* The messages whose identity or classification artifact RoutingRunner.run
\* cannot read (read_bytes raises FileNotFoundError, lines 57-58).
RoutingInputsMissing ==
    {src \in NormalizedSources :
        \/ identityFiles[MessageId(src)] = NoArtifact
        \/ classificationFiles[MessageId(src)] = NoArtifact}

\* RoutingRunner.run: the messages before the first unreadable one get
\* their decision written; the run ends there with the exception.
RoutingRun ==
    LET done == {src \in NormalizedSources :
                    \A s \in RoutingInputsMissing : src < s}
    IN
    /\ routingFiles' =
          [mid \in MessageIds |->
              IF \E src \in done : mid = MessageId(src)
              THEN RoutingDecision(mid, normalized[mid], configFile,
                                   identityFiles[mid], classificationFiles[mid])
              ELSE routingFiles[mid]]
    /\ stageRun' = [stage |-> "ROUTE",
                    status |-> IF RoutingInputsMissing = {} THEN "OK"
                               ELSE "FileNotFoundError"]
    /\ UNCHANGED <<configFile, identityFiles, classificationFiles, extractionFiles,
                   draftFiles, ingestVars, notStage>>

\* The operator deploys another runtime config.
ConfigChange(cfg) ==
    /\ cfg # configFile
    /\ configFile' = cfg
    /\ UNCHANGED <<identityFiles, classificationFiles, extractionFiles, routingFiles,
                   draftFiles, stageRun, ingestVars, notStage>>

InitStage ==
    /\ configFile = "config_a"
    /\ identityFiles = [mid \in MessageIds |-> NoArtifact]
    /\ classificationFiles = [mid \in MessageIds |-> NoArtifact]
    /\ extractionFiles = [mid \in MessageIds |-> NoArtifact]
    /\ routingFiles = [mid \in MessageIds |-> NoArtifact]
    /\ draftFiles = [mid \in MessageIds |-> "none"]
    /\ stageRun = [stage |-> "none", status |-> "none"]

NextStage ==
    \/ \E limit \in 1..NumMsgs : RunOnce(limit, 0, "none")
    \/ IdentityRun
    \/ ClassifyExtractRun
    \/ RoutingRun
    \/ \E cfg \in ConfigVersions : ConfigChange(cfg)

\* C4: once a normalized record or a stage artifact (identity,
\* classification, extraction, routing) is written, no later write replaces
\* it with different bytes: a rerun leaves the same file or fails.
C4_ArtifactsNeverReplaced ==
    [][\A mid \in MessageIds :
          /\ normalized[mid] # NoRecord => normalized'[mid] = normalized[mid]
          /\ identityFiles[mid] # NoArtifact => identityFiles'[mid] = identityFiles[mid]
          /\ classificationFiles[mid] # NoArtifact =>
                classificationFiles'[mid] = classificationFiles[mid]
          /\ extractionFiles[mid] # NoArtifact =>
                extractionFiles'[mid] = extractionFiles[mid]
          /\ routingFiles[mid] # NoArtifact => routingFiles'[mid] = routingFiles[mid]
      ]_vars

(***************************************************************************)
(* Case adapter and case stage                                             *)
(***************************************************************************)

\* Bound: the number of message fingerprints the adapter's clients call it for.
NumFingerprints == 2

Fingerprints == 1..NumFingerprints

\* Bound: the number of messages the case stage is applied to.
NumStageMessages == 1

StageMessages == 1..NumStageMessages

\* The routing actions CaseStage.apply looks at.
CaseActions == {"CREATE_CASE", "BLOCK_CASE_CREATE", "ATTACH_ORIGINAL_EMAIL",
                "ATTACH_ALL_FILES", "ADD_REQUEST_INFO_DRAFT", "ADD_REPLY_DRAFT"}

\* The rule that routed the messages: rule_id, rule_version and queue_id of
\* the routing decision.
RuleId == "ROUTE_RULE"
RuleVersion == "1.0.0"
QueueId == "QUEUE_INTAKE"

\* The drafts found under drafts/ (NULL: the file is missing).
RequestInfoDraft == <<"request_info.md">>
ReplyDraft == <<"reply.md">>

\* The attachment artifacts of a message: the first message has one.
AttachmentIds(fp) == IF fp = 1 THEN <<<<"att", fp>>>> ELSE <<>>

\* build_idempotency_key: "idem:" + sha256("fp|rule_id|rule_version|op");
\* fingerprints, rule ids and versions hold no "|".  The operation is given
\* by its parts: <<"CREATE_CASE">>, or <<"ATTACH", att_id>> for "ATTACH:{att_id}".
build_idempotency_key(fp, rule_id, rule_version, operation) ==
    <<"idem", Sha256(<<fp, rule_id, rule_version, operation>>)>>

\* uuid5(NAMESPACE_URL, "case:{idempotency_key}")
CaseId(key) == <<"case", key>>

\* The adapter's three fields as one value.
AdapterState ==
    [idx |-> idempotency_index, cases |-> cases, applied |-> applied_keys]

\* dict assignment d[k] = v
DictSet(d, k, v) ==
    [x \in DOMAIN d \cup {k} |-> IF x = k THEN v ELSE d[x]]

\* The guard of the non-create operations: the key has been seen.
KeyApplied_Never(ad, key) == FALSE

KeyApplied(ad, key) == key \in ad.applied

\* InMemoryCaseAdapter.create_case
create_case(ad, key, queue_id, title) ==
    IF key \in DOMAIN ad.idx
    THEN [ad |-> ad, ret |-> ad.idx[key], raised |-> "none"]
    ELSE LET case_id == CaseId(key)
             rec == [case_id |-> case_id, queue_id |-> queue_id, artifacts |-> <<>>,
                     notes |-> << <<"TITLE", title>> >>, drafts |-> <<>>]
         IN  [ad |-> [ad EXCEPT !.cases = DictSet(@, case_id, rec),
                                !.idx = DictSet(@, key, case_id)],
              ret |-> case_id, raised |-> "none"]

\* The shared body with the case looked up before the key is recorded.
ApplyOnce_LookupFirst(ad, key, case_id, field, item) ==
    IF KeyApplied(ad, key)
    THEN [ad |-> ad, ret |-> NULL, raised |-> "none"]
    ELSE IF case_id \notin DOMAIN ad.cases
    THEN [ad |-> ad, ret |-> NULL, raised |-> "KeyError"]
    ELSE [ad |-> [ad EXCEPT !.applied = @ \cup {key},
                            !.cases[case_id][field] = Append(@, item)],
          ret |-> NULL, raised |-> "none"]

\* The body shared by update_case, attach_artifact, add_note and
\* add_draft_message: return on a seen key, else record the key and append
\* to a list of the case (KeyError when the case id is unknown).
ApplyOnce(ad, key, case_id, field, item) ==
    IF KeyApplied(ad, key)
    THEN [ad |-> ad, ret |-> NULL, raised |-> "none"]
    ELSE LET ad1 == [ad EXCEPT !.applied = @ \cup {key}]
         IN  IF case_id \notin DOMAIN ad.cases
             THEN [ad |-> ad1, ret |-> NULL, raised |-> "KeyError"]
             ELSE [ad |-> [ad1 EXCEPT !.cases[case_id][field] = Append(@, item)],
                   ret |-> NULL, raised |-> "none"]

\* InMemoryCaseAdapter.update_case, called with a title
update_case(ad, key, case_id, title) ==
    ApplyOnce(ad, key, case_id, "notes", <<"TITLE_UPDATE", title>>)

\* InMemoryCaseAdapter.attach_artifact
attach_artifact(ad, key, case_id, artifact) ==
    ApplyOnce(ad, key, case_id, "artifacts", artifact)

\* InMemoryCaseAdapter.add_note
add_note(ad, key, case_id, note) ==
    ApplyOnce(ad, key, case_id, "notes", <<"NOTE", note>>)

\* InMemoryCaseAdapter.add_draft_message
add_draft_message(ad, key, case_id, draft) ==
    ApplyOnce(ad, key, case_id, "drafts", draft)

\* stage.py line 34: the decision asks to block case creation.
BlockRequested_UnlessCreate(actions) ==
    "BLOCK_CASE_CREATE" \in actions /\ "CREATE_CASE" \notin actions

BlockRequested(actions) == "BLOCK_CASE_CREATE" \in actions

\* stage.py lines 37-41: a case is to be created and a draft the actions ask
\* to add is None.
RequiredDraftMissing_ReplyUnchecked(actions, request_info_draft, reply_draft) ==
    /\ "CREATE_CASE" \in actions
    /\ "ADD_REQUEST_INFO_DRAFT" \in actions /\ request_info_draft = NULL

RequiredDraftMissing(actions, request_info_draft, reply_draft) ==
    /\ "CREATE_CASE" \in actions
    /\ \/ ("ADD_REQUEST_INFO_DRAFT" \in actions /\ request_info_draft = NULL)
       \/ ("ADD_REPLY_DRAFT" \in actions /\ reply_draft = NULL)

\* One adapter call made by the stage: s is [ad, calls], r the call's result.
AfterCall(s, r, name) == [ad |-> r.ad, calls |-> Append(s.calls, name)]

\* stage.py lines 75-93: the loop over the attachments.
RECURSIVE AttachAll(_, _, _, _, _)
AttachAll(s, fp, decision, case_id, atts) ==
    IF atts = <<>> THEN s
    ELSE LET att_id == Head(atts)
             key == build_idempotency_key(fp, decision.rule_id, decision.rule_version,
                                          <<"ATTACH", att_id>>)
             r == attach_artifact(s.ad, key, case_id,
                                  [kind |-> "ATTACHMENT", attachment_id |-> att_id])
         IN  AttachAll(AfterCall(s, r, "attach_artifact"), fp, decision, case_id,
                       Tail(atts))

\* CaseStage.apply on adapter state ad, for the message with fingerprint fp:
\* the adapter state it leaves, its CaseStageResult or exception, and the
\* adapter calls it made.
CaseStageApply(ad, fp, decision, attachments, request_info_draft, reply_draft) ==
    LET actions == decision.actions
        Key(op) == build_idempotency_key(fp, decision.rule_id, decision.rule_version, op)
        none == [ad |-> ad, case_id |-> NULL, blocked |-> FALSE, raised |-> "none",
                 calls |-> <<>>]
    IN
    IF BlockRequested(actions) THEN [none EXCEPT !.blocked = TRUE]
    ELSE IF RequiredDraftMissing(actions, request_info_draft, reply_draft)
    THEN [none EXCEPT !.raised = "ValueError"]
    ELSE IF "CREATE_CASE" \notin actions THEN none
    ELSE
    LET c == create_case(ad, Key(<<"CREATE_CASE">>), decision.queue_id, <<"subject", fp>>)
        case_id == c.ret
        s1 == [ad |-> c.ad, calls |-> <<"create_case">>]
        s2 == IF "ATTACH_ORIGINAL_EMAIL" \in actions
              THEN AfterCall(s1,
                       attach_artifact(s1.ad, Key(<<"ATTACH_ORIGINAL_EMAIL">>), case_id,
                                       [kind |-> "RAW_MIME", attachment_id |-> NULL]),
                       "attach_artifact")
              ELSE s1
        s3 == IF "ATTACH_ALL_FILES" \in actions
              THEN AttachAll(s2, fp, decision, case_id, attachments)
              ELSE s2
        s4 == IF "ADD_REQUEST_INFO_DRAFT" \in actions
              THEN AfterCall(s3,
                       add_draft_message(s3.ad, Key(<<"ADD_REQUEST_INFO_DRAFT">>), case_id,
                                         request_info_draft),
                       "add_draft_message")
              ELSE s3
        s5 == IF "ADD_REPLY_DRAFT" \in actions
              THEN AfterCall(s4,
                       add_draft_message(s4.ad, Key(<<"ADD_REPLY_DRAFT">>), case_id,
                                         reply_draft),
                       "add_draft_message")
              ELSE s4
    IN  [ad |-> s5.ad, case_id |-> case_id, blocked |-> FALSE, raised |-> "none",
         calls |-> s5.calls]

\* The routing decision handed to the stage.
Decision(actions) ==
    [actions |-> actions, rule_id |-> RuleId, rule_version |-> RuleVersion,
     queue_id |-> QueueId]

\* What the apply was asked: to create, to block, to add a draft it was not given.
Asked(actions, request_info_draft, reply_draft) ==
    (actions \cap {"CREATE_CASE", "BLOCK_CASE_CREATE"})
    \cup (IF \/ ("ADD_REQUEST_INFO_DRAFT" \in actions /\ request_info_draft = NULL)
              \/ ("ADD_REPLY_DRAFT" \in actions /\ reply_draft = NULL)
           THEN {"draft_missing"} ELSE {})

NoCall == [op |-> "none", replay |-> FALSE, raised |-> "none", blocked |-> FALSE,
           asked |-> {}]

\* The adapter takes the state a call leaves.
SetAdapter(ad) ==
    /\ idempotency_index' = ad.idx
    /\ cases' = ad.cases
    /\ applied_keys' = ad.applied

\* A caller applies the stage to a message, its routing decision and the
\* drafts it found.
Apply(fp, actions, request_info_draft, reply_draft) ==
    LET r == CaseStageApply(AdapterState, fp, Decision(actions), AttachmentIds(fp),
                            request_info_draft, reply_draft)
        key == build_idempotency_key(fp, RuleId, RuleVersion, <<"CREATE_CASE">>)
    IN
    /\ SetAdapter(r.ad)
    /\ lastCall' = [op |-> "apply", replay |-> key \in DOMAIN idempotency_index,
                    raised |-> r.raised, blocked |-> r.blocked,
                    asked |-> Asked(actions, request_info_draft, reply_draft)]
    /\ UNCHANGED notCase

\* A client calls the adapter directly, with the key of (fp, rule, op).
DirectCall(op, r, replay) ==
    /\ SetAdapter(r.ad)
    /\ lastCall' = [NoCall EXCEPT !.op = op, !.replay = replay, !.raised = r.raised]
    /\ UNCHANGED notCase

CreateCase(fp) ==
    LET key == build_idempotency_key(fp, RuleId, RuleVersion, <<"CREATE_CASE">>)
    IN  /\ fp \in Fingerprints
        /\ DirectCall("create_case",
                      create_case(AdapterState, key, QueueId, <<"subject", fp>>),
                      key \in DOMAIN idempotency_index)

\* The other operations are called with a case id create_case returned.
UpdateCase(fp, case_id) ==
    LET key == build_idempotency_key(fp, RuleId, RuleVersion, <<"UPDATE_CASE">>)
    IN  /\ case_id \in DOMAIN cases
        /\ DirectCall("update_case",
                      update_case(AdapterState, key, case_id, <<"subject", fp>>),
                      key \in applied_keys)

AttachArtifact(fp, case_id) ==
    LET key == build_idempotency_key(fp, RuleId, RuleVersion, <<"ATTACH_ORIGINAL_EMAIL">>)
    IN  /\ case_id \in DOMAIN cases
        /\ DirectCall("attach_artifact",
                      attach_artifact(AdapterState, key, case_id,
                                      [kind |-> "RAW_MIME", attachment_id |-> NULL]),
                      key \in applied_keys)

AddNote(fp, case_id) ==
    LET key == build_idempotency_key(fp, RuleId, RuleVersion, <<"ADD_NOTE">>)
    IN  /\ case_id \in DOMAIN cases
        /\ DirectCall("add_note", add_note(AdapterState, key, case_id, <<"note", fp>>),
                      key \in applied_keys)

AddDraftMessage(fp, case_id) ==
    LET key == build_idempotency_key(fp, RuleId, RuleVersion, <<"ADD_REPLY_DRAFT">>)
    IN  /\ case_id \in DOMAIN cases
        /\ DirectCall("add_draft_message",
                      add_draft_message(AdapterState, key, case_id, ReplyDraft),
                      key \in applied_keys)

\* The same operations called with a case id the adapter does not hold
\* (the client's create_case has not been made): self._cases[case_id]
\* raises KeyError.
AttachArtifactUnknownCase(fp, case_id) ==
    LET key == build_idempotency_key(fp, RuleId, RuleVersion, <<"ATTACH_ORIGINAL_EMAIL">>)
    IN  /\ case_id \notin DOMAIN cases
        /\ DirectCall("attach_artifact",
                      attach_artifact(AdapterState, key, case_id,
                                      [kind |-> "RAW_MIME", attachment_id |-> NULL]),
                      key \in applied_keys)

AddNoteUnknownCase(fp, case_id) ==
    LET key == build_idempotency_key(fp, RuleId, RuleVersion, <<"ADD_NOTE">>)
    IN  /\ case_id \notin DOMAIN cases
        /\ DirectCall("add_note", add_note(AdapterState, key, case_id, <<"note", fp>>),
                      key \in applied_keys)

AddDraftMessageUnknownCase(fp, case_id) ==
    LET key == build_idempotency_key(fp, RuleId, RuleVersion, <<"ADD_REPLY_DRAFT">>)
    IN  /\ case_id \notin DOMAIN cases
        /\ DirectCall("add_draft_message",
                      add_draft_message(AdapterState, key, case_id, ReplyDraft),
                      key \in applied_keys)

\* InMemoryCaseAdapter.__init__
InitCase ==
    /\ idempotency_index = <<>>
    /\ cases = <<>>
    /\ applied_keys = {}
    /\ lastCall = NoCall

\* The case ids a client of message fp holds: the one its create_case returned.
CaseIdOf(fp) == CaseId(build_idempotency_key(fp, RuleId, RuleVersion, <<"CREATE_CASE">>))

NextAdapter ==
    \/ \E fp \in Fingerprints : CreateCase(fp)
    \/ \E fp \in Fingerprints : UpdateCase(fp, CaseIdOf(fp))
    \/ \E fp \in Fingerprints : AttachArtifact(fp, CaseIdOf(fp))
    \/ \E fp \in Fingerprints : AddNote(fp, CaseIdOf(fp))
    \/ \E fp \in Fingerprints : AddDraftMessage(fp, CaseIdOf(fp))

\* The clients of the adapter that may name a case before it exists.
EarlyClients == {1, 2}

\* The adapter called by these clients.
NextAdapterAnyCase ==
    \/ \E fp \in EarlyClients : CreateCase(fp)
    \/ \E fp \in EarlyClients : UpdateCase(fp, CaseIdOf(fp))
    \/ \E fp \in EarlyClients : AttachArtifact(fp, CaseIdOf(fp))
    \/ \E fp \in EarlyClients : AddNote(fp, CaseIdOf(fp))
    \/ \E fp \in EarlyClients : AddDraftMessage(fp, CaseIdOf(fp))
    \/ \E fp \in EarlyClients : AttachArtifactUnknownCase(fp, CaseIdOf(fp))
    \/ \E fp \in EarlyClients : AddNoteUnknownCase(fp, CaseIdOf(fp))
    \/ \E fp \in EarlyClients : AddDraftMessageUnknownCase(fp, CaseIdOf(fp))

NextCase ==
    \E fp \in StageMessages, actions \in SUBSET CaseActions,
       request_info_draft \in {NULL, RequestInfoDraft}, reply_draft \in {NULL, ReplyDraft} :
        Apply(fp, actions, request_info_draft, reply_draft)

\* The payloads a replayed call may carry.
ReplayQueues == {QueueId, "QUEUE_OTHER"}
ReplayItems == {RequestInfoDraft, ReplyDraft}

\* The records held by the cases, the TITLE note of create_case aside.
RECURSIVE RecordCount(_)
RecordCount(ids) ==
    IF ids = {} THEN 0
    ELSE LET id == CHOOSE x \in ids : TRUE
         IN  Len(cases[id].artifacts) + Len(cases[id].drafts)
             + (Len(cases[id].notes) - 1) + RecordCount(ids \ {id})

\* C8: a call with an idempotency key already used is a no-op: create_case
\* returns the id it returned the first time and adds no case; update_case,
\* attach_artifact, add_note and add_draft_message add nothing, whatever
\* payload the replay carries.  So there is one case per create key and at
\* most one artifact, note or draft per other key.
C8_ReplayIsNoOp ==
    /\ \A key \in DOMAIN idempotency_index, q \in ReplayQueues :
          LET r == create_case(AdapterState, key, q, <<"subject", 0>>)
          IN  /\ r.ad = AdapterState
              /\ r.ret = idempotency_index[key]
              /\ r.ret \in DOMAIN cases
    /\ \A key \in applied_keys, case_id \in DOMAIN cases, item \in ReplayItems :
          /\ update_case(AdapterState, key, case_id, item).ad = AdapterState
          /\ attach_artifact(AdapterState, key, case_id, item).ad = AdapterState
          /\ add_note(AdapterState, key, case_id, item).ad = AdapterState
          /\ add_draft_message(AdapterState, key, case_id, item).ad = AdapterState
    /\ Cardinality(DOMAIN cases) = Cardinality(DOMAIN idempotency_index)
    /\ RecordCount(DOMAIN cases) <= Cardinality(applied_keys)

\* A create_case has just been replayed on a case that holds an artifact, a
\* draft and two notes besides its title, and the case still holds them.
C8_Witness ==
    /\ lastCall.op = "create_case"
    /\ lastCall.replay
    /\ \E id \in DOMAIN cases :
          /\ Len(cases[id].artifacts) = 1
          /\ Len(cases[id].drafts) = 1
          /\ Len(cases[id].notes) = 3

\* The non-create operations C40 names, by method, key and payload.
KeyedCall(ad, op, fp, case_id) ==
    CASE op = "ATTACH_ORIGINAL_EMAIL" ->
            attach_artifact(ad, build_idempotency_key(fp, RuleId, RuleVersion, <<op>>),
                            case_id, [kind |-> "RAW_MIME", attachment_id |-> NULL])
      [] op = "ADD_NOTE" ->
            add_note(ad, build_idempotency_key(fp, RuleId, RuleVersion, <<op>>),
                     case_id, <<"note", fp>>)
      [] OTHER ->
            add_draft_message(ad, build_idempotency_key(fp, RuleId, RuleVersion, <<op>>),
                              case_id, ReplyDraft)

KeyedOps == {"ATTACH_ORIGINAL_EMAIL", "ADD_NOTE", "ADD_REPLY_DRAFT"}

\* The effect of the operation of message fp is on its case.
EffectApplied(cs, op, fp) ==
    /\ CaseIdOf(fp) \in DOMAIN cs
    /\ CASE op = "ATTACH_ORIGINAL_EMAIL" -> cs[CaseIdOf(fp)].artifacts # <<>>
         [] op = "ADD_NOTE" ->
                \E i \in 1..Len(cs[CaseIdOf(fp)].notes) :
                    cs[CaseIdOf(fp)].notes[i] = <<"NOTE", <<"note", fp>>>>
         [] OTHER -> cs[CaseIdOf(fp)].drafts # <<>>

\* C40: attach_artifact, add_note and add_draft_message record the key
\* before they look the case up: a call with a fresh key and an unknown
\* case id raises KeyError, leaves the cases as they are and the key
\* recorded; a later call with that key, on the case once it exists, is a
\* no-op, and the effect of a key consumed this way is never applied.
C40_FailedCallConsumesKey ==
    /\ [](\A op \in KeyedOps, fp \in Fingerprints :
             LET key == build_idempotency_key(fp, RuleId, RuleVersion, <<op>>)
                 r == KeyedCall(AdapterState, op, fp, CaseIdOf(fp))
                 created == create_case(r.ad,
                                build_idempotency_key(fp, RuleId, RuleVersion, <<"CREATE_CASE">>),
                                QueueId, <<"subject", fp>>)
                 again == KeyedCall(created.ad, op, fp, CaseIdOf(fp))
             IN  (key \notin applied_keys /\ CaseIdOf(fp) \notin DOMAIN cases) =>
                    /\ r.raised = "KeyError"
                    /\ r.ad.cases = cases
                    /\ r.ad.applied = applied_keys \cup {key}
                    /\ again.raised = "none"
                    /\ again.ad = created.ad
                    /\ ~EffectApplied(again.ad.cases, op, fp))
    /\ [][\A op \in KeyedOps, fp \in Fingerprints :
             (/\ build_idempotency_key(fp, RuleId, RuleVersion, <<op>>) \in applied_keys
              /\ ~EffectApplied(cases, op, fp))
                 => ~EffectApplied(cases', op, fp)]_vars
    /\ [](lastCall.raised = "KeyError" => lastCall.op \in
             {"attach_artifact", "add_note", "add_draft_message"})

\* A call has failed on an unknown case, the case has been created since,
\* and the call made again with the same key has been a no-op: the key is
\* recorded and the case holds no artifact.
C40_Witness ==
    /\ lastCall.op = "attach_artifact"
    /\ lastCall.replay
    /\ lastCall.raised = "none"
    /\ \E fp \in Fingerprints :
          /\ build_idempotency_key(fp, RuleId, RuleVersion, <<"ATTACH_ORIGINAL_EMAIL">>)
                \in applied_keys
          /\ CaseIdOf(fp) \in DOMAIN cases
          /\ cases[CaseIdOf(fp)].artifacts = <<>>

\* What CaseStage.apply would do in the current adapter state.
ApplyResult(fp, actions, request_info_draft, reply_draft) ==
    CaseStageApply(AdapterState, fp, Decision(actions), AttachmentIds(fp),
                   request_info_draft, reply_draft)

\* An apply that calls no adapter method and leaves the adapter as it was.
NoAdapterCall(r) ==
    /\ r.calls = <<>>
    /\ r.ad = AdapterState
    /\ r.case_id = NULL

\* C9: whenever the actions contain BLOCK_CASE_CREATE, with or without
\* CREATE_CASE, apply reports blocked and makes no adapter call.
C9_BlockMakesNoAdapterCall ==
    /\ \A fp \in StageMessages, actions \in SUBSET CaseActions,
          rq \in {NULL, RequestInfoDraft}, rp \in {NULL, ReplyDraft} :
          "BLOCK_CASE_CREATE" \in actions =>
              LET r == ApplyResult(fp, actions, rq, rp)
              IN  r.blocked /\ r.raised = "none" /\ NoAdapterCall(r)
    /\ (lastCall.op = "apply" /\ "BLOCK_CASE_CREATE" \in lastCall.asked) =>
          lastCall.blocked /\ lastCall.raised = "none"

\* An apply asked to create and to block has reported blocked, and the
\* adapter holds no case and has seen no key.
C9_Witness ==
    /\ lastCall.op = "apply"
    /\ {"CREATE_CASE", "BLOCK_CASE_CREATE"} \subseteq lastCall.asked
    /\ lastCall.blocked
    /\ cases = <<>>
    /\ idempotency_index = <<>>
    /\ applied_keys = {}

\* The inputs of an apply whose actions ask for a draft that is missing.
DraftMissingInputs ==
    {inp \in [fp : StageMessages, actions : SUBSET CaseActions,
             rq : {NULL, RequestInfoDraft}, rp : {NULL, ReplyDraft}] :
        "draft_missing" \in Asked(inp.actions, inp.rq, inp.rp)}

\* C10 as stated: whenever the actions ask for a draft that is missing,
\* apply fails, and it does so before any adapter operation.
C10_MissingDraftFails ==
    /\ (lastCall.op = "apply" /\ "draft_missing" \in lastCall.asked) =>
          lastCall.raised = "ValueError"
    /\ \A inp \in DraftMissingInputs :
          NoAdapterCall(ApplyResult(inp.fp, inp.actions, inp.rq, inp.rp))

\* C10, amended: an apply whose actions ask for a missing draft never calls
\* the adapter; it fails (ValueError) when the actions contain CREATE_CASE
\* and not BLOCK_CASE_CREATE, and otherwise returns without a case.
C10_MissingDraftNoSideEffects ==
    /\ \A inp \in DraftMissingInputs :
          LET r == ApplyResult(inp.fp, inp.actions, inp.rq, inp.rp)
          IN  /\ NoAdapterCall(r)
              /\ (r.raised = "ValueError") <=>
                    ("CREATE_CASE" \in inp.actions /\ "BLOCK_CASE_CREATE" \notin inp.actions)
    /\ (lastCall.op = "apply" /\ lastCall.asked = {"CREATE_CASE", "draft_missing"}) =>
          lastCall.raised = "ValueError"

\* An apply asked to create a case and to add a draft it was not given has
\* raised, after an earlier apply had created the case: the case is as it was.
C10_Witness ==
    /\ lastCall.op = "apply"
    /\ lastCall.asked = {"CREATE_CASE", "draft_missing"}
    /\ lastCall.raised = "ValueError"
    /\ lastCall.replay
    /\ \E id \in DOMAIN cases : cases[id].drafts = <<>> /\ cases[id].artifacts = <<>>

(***************************************************************************)
(* Case adapter runner                                                     *)
(*                                                                         *)
(* CaseAdapterRunner.run with an audit logger, on a normalized_dir that    *)
(* holds one message; its audit file is auditFile.                         *)
(***************************************************************************)

\* The fingerprint of the message in normalized_dir.
RunnerMessage == 1

\* The action lists of the routing decisions the runner is run with.
RunnerActionSets ==
    { {"CREATE_CASE"},
      {"CREATE_CASE", "ADD_REQUEST_INFO_DRAFT"},
      {"CREATE_CASE", "ATTACH_ORIGINAL_EMAIL"},
      {"BLOCK_CASE_CREATE", "CREATE_CASE"},
      {"ATTACH_ORIGINAL_EMAIL"} }

\* stage.apply against an adapter whose backend is down: the first adapter
\* call raises RuntimeError and nothing is recorded.
ApplyWithAdapter(down, actions, request_info_draft, reply_draft) ==
    LET r == ApplyResult(RunnerMessage, actions, request_info_draft, reply_draft)
    IN  IF down /\ r.calls # <<>>
        THEN [ad |-> AdapterState, case_id |-> NULL, blocked |-> FALSE,
              raised |-> "RuntimeError", calls |-> <<>>]
        ELSE r

\* p5_case_adapter.py lines 101-110: the status of the case result.
CaseStatus(r) ==
    IF r.raised # "none" THEN "FAILED"
    ELSE IF r.blocked THEN "BLOCKED"
    ELSE IF r.case_id # NULL THEN "CREATED"
    ELSE "SKIPPED"

\* lines 106-108: the failure queue of the case result (NULL: None).
FailureQueueId_None(r) == NULL

FailureQueueId(r) ==
    IF r.raised # "none" THEN <<"QUEUE_CASE_CREATE_FAILURE_REVIEW">> ELSE NULL

\* lines 113-131: the case result written to case.json.
CaseResult(r, actions) ==
    [kind |-> "case", status |-> CaseStatus(r), case_id |-> r.case_id,
     blocked |-> r.blocked, failure_queue_id |-> FailureQueueId(r),
     error_type |-> r.raised, actions |-> actions]

NoRun == [stage_raised |-> "none", run_raised |-> "none", events_before |-> 0]

\* CaseAdapterRunner.run.  routing_present: routing/<message_id>.routing.json
\* exists; down: the adapter's backend is down.
CaseRun(actions, routing_present, request_info_draft, down) ==
    LET r == ApplyWithAdapter(down, actions, request_info_draft, NULL)
    IN
    /\ Len(auditFile) < MaxAuditLen
    /\ IF ~routing_present
       THEN /\ lastRun' = [NoRun EXCEPT !.run_raised = "FileNotFoundError",
                                        !.events_before = Len(auditFile)]
            /\ UNCHANGED <<auditFile, caseFile, idempotency_index, cases, applied_keys>>
       ELSE /\ SetAdapter(r.ad)
            /\ caseFile' = CaseResult(r, actions)
            /\ auditFile' = Append(auditFile,
                                   SealEvent(build_audit_event("CASE", "SYSTEM"),
                                             ReadLastHash(auditFile)))
            /\ lastRun' = [NoRun EXCEPT !.stage_raised = r.raised,
                                        !.events_before = Len(auditFile)]
    /\ UNCHANGED <<apc, aprev, aevent, lastCall, storeVars, ingestVars, stageVars,
                   routeVars, hitlVars, reviewVars, attachVars, llmVars, verifyVars, reprocessVars, pipelineVars, identityVars, retentionVars, counterVars, pagingVars, brokerVars>>

InitRunner ==
    /\ caseFile = NoArtifact
    /\ lastRun = NoRun

NextRunner ==
    \E actions \in RunnerActionSets, routing_present \in BOOLEAN,
       request_info_draft \in {NULL, RequestInfoDraft}, down \in BOOLEAN :
        CaseRun(actions, routing_present, request_info_draft, down)

\* C11: when stage.apply raised for the message, the case result written has
\* status FAILED and failure_queue_id QUEUE_CASE_CREATE_FAILURE_REVIEW, and
\* the run appended a CASE event to the message's audit file.
C11_FailureRecordedAndAudited ==
    lastRun.stage_raised # "none" =>
        /\ caseFile.status = "FAILED"
        /\ caseFile.failure_queue_id = <<"QUEUE_CASE_CREATE_FAILURE_REVIEW">>
        /\ Len(auditFile) = lastRun.events_before + 1
        /\ auditFile[Len(auditFile)].stage = "CASE"

\* A run whose adapter backend was down has failed after an earlier run had
\* created the case: two CASE events are in the audit file.
C11_Witness ==
    /\ lastRun.stage_raised = "RuntimeError"
    /\ caseFile.status = "FAILED"
    /\ cases # <<>>
    /\ Len(auditFile) = 2

(***************************************************************************)
(* Routing evaluator                                                       *)
(***************************************************************************)

\* Bound: the number of rules in a ruleset file.
MaxRules == 2

\* The labels of the routing context.
RiskFlags == {"RISK_SECURITY_MALWARE", "RISK_LEGAL_THREAT"}
Intents == {"INTENT_GDPR_REQUEST", "INTENT_GENERAL_INQUIRY"}

\* fail_closed_reason None.
NoReason == "null"

\* _match_condition, line 42: the closed operator set.
supported_keys ==
    {"risk_flags_any", "risk_flags_not_any", "primary_intent_in",
     "primary_intent_not_in", "identity_status_in", "product_line_in", "any", "all"}

\* The value of a key of a condition, when the key is present.
Has(cond, key) == key \in DOMAIN cond

\* _match_condition on a condition without any/all branches of its own:
\* "ERR" (ValueError on unknown keys), "T" or "F".
MatchLeaf(cond, ctx) ==
    IF DOMAIN cond \ supported_keys # {} THEN "ERR"
    ELSE IF Has(cond, "risk_flags_any") /\ cond["risk_flags_any"] \cap ctx.risk_flags = {}
    THEN "F"
    ELSE IF Has(cond, "risk_flags_not_any")
            /\ cond["risk_flags_not_any"] \cap ctx.risk_flags # {}
    THEN "F"
    ELSE IF Has(cond, "primary_intent_in")
            /\ ctx.primary_intent \notin cond["primary_intent_in"]
    THEN "F"
    ELSE IF Has(cond, "primary_intent_not_in")
            /\ ctx.primary_intent \in cond["primary_intent_not_in"]
    THEN "F"
    ELSE IF Has(cond, "identity_status_in")
            /\ ctx.identity_status \notin cond["identity_status_in"]
    THEN "F"
    ELSE IF Has(cond, "product_line_in")
            /\ ctx.product_line \notin cond["product_line_in"]
    THEN "F"
    ELSE "T"

\* any(_match_condition(x, ctx) for x in branches): stops at the first
\* branch that matches; a branch that raises ends the evaluation.
RECURSIVE AnyBranch(_, _, _)
AnyBranch(branches, i, ctx) ==
    IF i > Len(branches) THEN "F"
    ELSE LET m == MatchLeaf(branches[i], ctx)
         IN  IF m = "F" THEN AnyBranch(branches, i + 1, ctx) ELSE m

\* all(_match_condition(x, ctx) for x in branches): stops at the first
\* branch that does not match.
RECURSIVE AllBranch(_, _, _)
AllBranch(branches, i, ctx) ==
    IF i > Len(branches) THEN "T"
    ELSE LET m == MatchLeaf(branches[i], ctx)
         IN  IF m = "T" THEN AllBranch(branches, i + 1, ctx) ELSE m

\* _match_condition: the leaf keys first, then "any", then "all"; the
\* branches of the rulesets considered are conditions without branches.
MatchCondition(cond, ctx) ==
    LET leaf == MatchLeaf(cond, ctx)
        any == IF Has(cond, "any") THEN AnyBranch(cond["any"], 1, ctx) ELSE "T"
        all == IF Has(cond, "all") THEN AllBranch(cond["all"], 1, ctx) ELSE "T"
    IN  IF leaf # "T" THEN leaf
        ELSE IF any # "T" THEN any
        ELSE all

\* _sorted_rules: sorted(rules, key=priority, reverse=True), a stable sort:
\* rules of equal priority keep their file order.
\* The rules as the file lists them, unsorted.
SortedRules_FileOrder(rules) == rules

RECURSIVE SortedRules(_)
SortedRules(rules) ==
    IF rules = <<>> THEN <<>>
    ELSE LET top == CHOOSE i \in 1..Len(rules) :
                      /\ \A j \in 1..Len(rules) : rules[j].priority <= rules[i].priority
                      /\ \A j \in 1..(i - 1) : rules[j].priority < rules[i].priority
             rest == [k \in 1..(Len(rules) - 1) |->
                         IF k < top THEN rules[k] ELSE rules[k + 1]]
         IN  <<rules[top]>> \o SortedRules(rest)

\* evaluate_routing lines 141-148: the first rule, in sorted order, whose
\* condition matches: its index, 0 when none matches, -1 when a condition
\* reached before a match raises.
RECURSIVE FirstMatch(_, _, _)
FirstMatch(sorted, i, ctx) ==
    IF i > Len(sorted) THEN 0
    ELSE LET m == MatchCondition(sorted[i].when, ctx)
         IN  IF m = "T" THEN i
             ELSE IF m = "ERR" THEN -1
             ELSE FirstMatch(sorted, i + 1, ctx)

\* The rules a ruleset file is written from.  The third has a condition key
\* outside the operator set; the fourth has one in the second branch of an
\* "any".
RuleTemplates == 1..4

RuleWhen(tpl) ==
    CASE tpl = 1 -> [risk_flags_any |-> {"RISK_SECURITY_MALWARE"}]
      [] tpl = 2 -> [primary_intent_in |-> {"INTENT_GDPR_REQUEST"}]
      [] tpl = 3 -> [sender_domain_in |-> {"example.org"}]
      [] tpl = 4 -> [any |-> << [risk_flags_any |-> {"RISK_LEGAL_THREAT"}],
                               [subject_contains |-> {"lawyer"}] >>]

RuleThen(tpl) ==
    CASE tpl = 1 -> [queue_id |-> "QUEUE_SECURITY_REVIEW",
                     actions |-> <<"BLOCK_CASE_CREATE", "ATTACH_ORIGINAL_EMAIL">>,
                     fail_closed |-> TRUE, fail_closed_reason |-> "SECURITY_REVIEW"]
      [] tpl = 2 -> [queue_id |-> "QUEUE_PRIVACY",
                     actions |-> <<"CREATE_CASE", "ATTACH_ORIGINAL_EMAIL">>,
                     fail_closed |-> FALSE, fail_closed_reason |-> NoReason]
      [] tpl = 3 -> [queue_id |-> "QUEUE_PARTNERS",
                     actions |-> <<"CREATE_CASE">>,
                     fail_closed |-> FALSE, fail_closed_reason |-> NoReason]
      [] tpl = 4 -> [queue_id |-> "QUEUE_LEGAL",
                     actions |-> <<"CREATE_CASE", "ATTACH_ALL_FILES">>,
                     fail_closed |-> FALSE, fail_closed_reason |-> NoReason]

RuleIdOf(tpl) ==
    CASE tpl = 1 -> "ROUTE_SECURITY_MALWARE"
      [] tpl = 2 -> "ROUTE_PRIVACY_GDPR"
      [] tpl = 3 -> "ROUTE_PARTNERS"
      [] tpl = 4 -> "ROUTE_LEGAL"

\* The priorities rules are given.
Priorities == {90, 100}

\* A rule of the file: entry names its template and its priority.
RuleOf(entry) ==
    [rule_id |-> RuleIdOf(entry.tpl), priority |-> entry.priority,
     when |-> RuleWhen(entry.tpl), then |-> RuleThen(entry.tpl)]

\* load_routing_ruleset: the file has ruleset_version, a rules list and a
\* fallback object, and that is all the loader asks of it.
load_routing_ruleset(file) ==
    [rules |-> [i \in 1..Len(file.rules) |-> RuleOf(file.rules[i])],
     fallback |-> [queue_id |-> "QUEUE_INTAKE_REVIEW_GENERAL",
                   actions |-> <<"ATTACH_ORIGINAL_EMAIL">>,
                   fail_closed |-> file.fallback_fail_closed,
                   fail_closed_reason |-> IF file.fallback_fail_closed
                                          THEN "NO_RULE_MATCH" ELSE NoReason]]

\* config.incident.force_review_queue_id
ForceReviewQueueId == "QUEUE_INCIDENT_REVIEW"

NoDecision ==
    [queue_id |-> "none", actions |-> <<>>, rule_id |-> "none",
     fail_closed |-> FALSE, fail_closed_reason |-> NoReason]

InSeq(x, seq) == \E i \in 1..Len(seq) : seq[i] = x

NotCreateCase(a) == a # "CREATE_CASE"

\* evaluate_routing lines 164-171: the force-review override.
ForceReview_Keep(incident, ruleset, then_rule) == then_rule

ForceReview(incident, ruleset, then_rule) ==
    IF incident.force_review
    THEN [then |-> [ruleset.fallback EXCEPT
                        !.queue_id = ForceReviewQueueId,
                        !.fail_closed = TRUE,
                        !.fail_closed_reason = "INCIDENT_FORCE_REVIEW",
                        !.actions = <<"ATTACH_ORIGINAL_EMAIL">>],
          rule_id |-> "INCIDENT_FORCE_REVIEW"]
    ELSE then_rule

\* evaluate_routing lines 190-200: the block-case-create override.
BlockCaseCreate(incident, ctx, decision) ==
    IF incident.block_flags \cap ctx.risk_flags # {}
    THEN LET kept == SelectSeq(decision.actions, NotCreateCase)
         IN  [decision EXCEPT
                 !.actions = IF InSeq("BLOCK_CASE_CREATE", kept) THEN kept
                             ELSE <<"BLOCK_CASE_CREATE">> \o kept,
                 !.fail_closed = TRUE,
                 !.fail_closed_reason = IF @ = NoReason
                                        THEN "INCIDENT_BLOCK_CASE_CREATE" ELSE @]
    ELSE decision

\* evaluate_routing: whether the ruleset was loaded, the exception raised
\* (if any) and the decision.
evaluate_routing(file, incident, ctx) ==
    LET ruleset == load_routing_ruleset(file)
        sorted == SortedRules(ruleset.rules)
        m == FirstMatch(sorted, 1, ctx)
    IN
    IF m = -1
    THEN [loaded |-> TRUE, raised |-> "ValueError", decision |-> NoDecision]
    ELSE
    LET then_rule == IF m = 0
                     THEN [then |-> ruleset.fallback, rule_id |-> "ROUTE_FALLBACK"]
                     ELSE [then |-> sorted[m].then, rule_id |-> sorted[m].rule_id]
        forced == ForceReview(incident, ruleset, then_rule)
        decision == [queue_id |-> forced.then.queue_id,
                     actions |-> forced.then.actions,
                     rule_id |-> forced.rule_id,
                     fail_closed |-> forced.then.fail_closed,
                     fail_closed_reason |-> forced.then.fail_closed_reason]
    IN  [loaded |-> TRUE, raised |-> "none",
         decision |-> BlockCaseCreate(incident, ctx, decision)]

NotEvaluated == [loaded |-> FALSE, raised |-> "none", decision |-> NoDecision]

\* The ruleset files: up to MaxRules rules, each a template with a priority.
RECURSIVE RuleLists(_)
RuleLists(n) ==
    IF n = 0 THEN {<<>>}
    ELSE LET shorter == RuleLists(n - 1)
         IN  shorter \cup
             {Append(l, [tpl |-> tp, priority |-> pr]) :
                 l \in {x \in shorter : Len(x) = n - 1},
                 tp \in RuleTemplates, pr \in Priorities}

InitRoute ==
    /\ routeRuleset \in [rules : RuleLists(MaxRules), fallback_fail_closed : BOOLEAN]
    /\ routeIncident \in [force_review : BOOLEAN, block_flags : SUBSET RiskFlags]
    /\ routeCtx \in [risk_flags : SUBSET RiskFlags, primary_intent : Intents,
                     identity_status : {"IDENTITY_CONFIRMED"},
                     product_line : {"PROD_UNKNOWN"}]
    /\ routeOut = NotEvaluated

\* RoutingRunner calls evaluate_routing for the message.
EvaluateRouting ==
    /\ routeOut' = evaluate_routing(routeRuleset, routeIncident, routeCtx)
    /\ UNCHANGED <<routeRuleset, routeIncident, routeCtx, notRoute>>

NextRoute == EvaluateRouting

\* The evaluation returned a decision.
Evaluated == routeOut.loaded /\ routeOut.raised = "none"

\* A risk flag of the classification is in
\* incident.block_case_create_risk_flags_any.
BlockFlagHit == routeIncident.block_flags \cap routeCtx.risk_flags # {}

LoadedRules == load_routing_ruleset(routeRuleset).rules

\* The rules of the file whose condition holds for the input.
MatchingRules ==
    {i \in 1..Len(LoadedRules) : MatchCondition(LoadedRules[i].when, routeCtx) = "T"}

\* C12: whenever a risk flag of the classification is a block flag, the final
\* decision starts with BLOCK_CASE_CREATE, has no CREATE_CASE, is fail-closed
\* and gives the reason INCIDENT_BLOCK_CASE_CREATE, whatever matched and
\* whether or not force_review applied first.
C12_BlockOverrideApplied ==
    (Evaluated /\ BlockFlagHit) =>
        /\ routeOut.decision.actions # <<>>
        /\ routeOut.decision.actions[1] = "BLOCK_CASE_CREATE"
        /\ ~InSeq("CREATE_CASE", routeOut.decision.actions)
        /\ routeOut.decision.fail_closed
        /\ routeOut.decision.fail_closed_reason = "INCIDENT_BLOCK_CASE_CREATE"

\* C13 as stated: whenever force_review is true the decision goes to the
\* force-review queue, fail-closed, with reason INCIDENT_FORCE_REVIEW and
\* actions exactly [ATTACH_ORIGINAL_EMAIL].
C13_ForceReviewReplaces ==
    (Evaluated /\ routeIncident.force_review) =>
        /\ routeOut.decision.queue_id = ForceReviewQueueId
        /\ routeOut.decision.fail_closed
        /\ routeOut.decision.fail_closed_reason = "INCIDENT_FORCE_REVIEW"
        /\ routeOut.decision.actions = <<"ATTACH_ORIGINAL_EMAIL">>

\* C13, amended: whenever force_review is true the decision goes to the
\* force-review queue under rule id INCIDENT_FORCE_REVIEW, fail-closed and
\* without CREATE_CASE; its actions are [ATTACH_ORIGINAL_EMAIL] and its reason
\* INCIDENT_FORCE_REVIEW when no block flag is present, and its actions are
\* [BLOCK_CASE_CREATE, ATTACH_ORIGINAL_EMAIL] when one is.
C13_ForceReviewThenBlock ==
    (Evaluated /\ routeIncident.force_review) =>
        /\ routeOut.decision.queue_id = ForceReviewQueueId
        /\ routeOut.decision.rule_id = "INCIDENT_FORCE_REVIEW"
        /\ routeOut.decision.fail_closed
        /\ ~InSeq("CREATE_CASE", routeOut.decision.actions)
        /\ IF BlockFlagHit
           THEN routeOut.decision.actions = <<"BLOCK_CASE_CREATE", "ATTACH_ORIGINAL_EMAIL">>
           ELSE /\ routeOut.decision.actions = <<"ATTACH_ORIGINAL_EMAIL">>
                /\ routeOut.decision.fail_closed_reason = "INCIDENT_FORCE_REVIEW"

\* A rule that would have created a case matched, force_review replaced it and
\* the block override then acted on the replaced decision.
C13_Witness ==
    /\ Evaluated
    /\ routeIncident.force_review
    /\ BlockFlagHit
    /\ \E i \in MatchingRules : InSeq("CREATE_CASE", LoadedRules[i].then.actions)
    /\ routeOut.decision.queue_id = ForceReviewQueueId
    /\ routeOut.decision.actions = <<"BLOCK_CASE_CREATE", "ATTACH_ORIGINAL_EMAIL">>

\* The orders a file can list n rules in.
Orders(n) == {p \in [1..n -> 1..n] : \A i, j \in 1..n : p[i] = p[j] => i = j}

Reordered(file, p) == [file EXCEPT !.rules = [i \in 1..Len(file.rules) |-> file.rules[p[i]]]]

\* No rule of the file has a condition key outside the operator set.
WellFormed(file) == \A i \in 1..Len(file.rules) : file.rules[i].tpl \in {1, 2}

\* C14 as stated: the decision is that of the matching rule of highest
\* priority, whatever order the file lists the rules in.
C14_IndependentOfFileOrder ==
    (Evaluated /\ WellFormed(routeRuleset)) =>
        \A p \in Orders(Len(routeRuleset.rules)) :
            evaluate_routing(Reordered(routeRuleset, p), routeIncident, routeCtx) = routeOut

\* C14, amended: when rules match and no override replaces them, the decision
\* is that of the matching rule of highest priority and, among matching rules
\* of that priority, of the one the file lists first; so the order of the file
\* decides only between matching rules of equal priority.
C14_HighestPriorityFirstListed ==
    (Evaluated /\ ~routeIncident.force_review /\ MatchingRules # {}) =>
        \E w \in MatchingRules :
            /\ \A i \in MatchingRules :
                  \/ LoadedRules[i].priority < LoadedRules[w].priority
                  \/ (LoadedRules[i].priority = LoadedRules[w].priority /\ w <= i)
            /\ routeOut.decision.rule_id = LoadedRules[w].rule_id
            /\ routeOut.decision.queue_id = LoadedRules[w].then.queue_id

\* The privacy rule is listed before the security rule, which has the higher
\* priority; a GDPR request with a malware flag goes to security.
C14_Witness ==
    /\ Evaluated
    /\ ~routeIncident.force_review
    /\ Cardinality(MatchingRules) = 2
    /\ LoadedRules[1].rule_id = "ROUTE_PRIVACY_GDPR"
    /\ LoadedRules[1].priority < LoadedRules[2].priority
    /\ routeCtx.primary_intent = "INTENT_GDPR_REQUEST"
    /\ "RISK_SECURITY_MALWARE" \in routeCtx.risk_flags
    /\ routeOut.decision.queue_id = "QUEUE_SECURITY_REVIEW"

\* C15: when no rule matches, evaluation is not an error and the decision,
\* taken from the fallback, is fail-closed.
C15_NoMatchFailsClosed ==
    (/\ routeOut.loaded
     /\ \A i \in 1..Len(LoadedRules) : MatchCondition(LoadedRules[i].when, routeCtx) = "F")
    =>  /\ routeOut.raised = "none"
        /\ routeOut.decision.fail_closed
        /\ ~routeIncident.force_review => routeOut.decision.rule_id = "ROUTE_FALLBACK"

\* C16: a ruleset in which any rule's condition has a key outside the operator
\* set is not loaded.
C16_UnknownKeysFailLoad ==
    routeOut.loaded => WellFormed(routeRuleset)

(***************************************************************************)
(* HITL corrections: POST /api/review/items/<id>/corrections               *)
(***************************************************************************)

\* The clock runs from 0 to MaxClock seconds.
MaxClock == 1

\* The number of submissions followed.
MaxSubmits == 3

ReviewItemId == "review-1"
Actors == {"reviewer@example.test"}
IdempotencyKeys == {"k1", "k2"}

\* The corrections lists a request body carries.
Bodies == {"route_to_general", "route_to_privacy"}

\* The bytes the review item file has now, and the bytes it had before.
CurrentItemBytes == 2
ItemBytes == {1, 2}

\* _stable_etag
StableEtag(bytes) == Sha256(bytes)

\* The If-Match header: absent, or the ETag of some bytes of the item.
IfMatchValues == {NULL} \cup {StableEtag(b) : b \in ItemBytes}

\* do_POST line 845: `if_match is None or if_match != etag` rejects.
ETagMatches_Present(if_match, etag) == if_match # NULL

ETagMatches(if_match, etag) == if_match # NULL /\ if_match = etag

\* _idempotency_correction_id: uuid5 of the review item, actor and key.
IdempotencyCorrectionId(review_item_id, actor_id, key) ==
    <<"http_correction", review_item_id, actor_id, key>>

CorrectionIds ==
    {IdempotencyCorrectionId(ReviewItemId, a, k) : a \in Actors, k \in IdempotencyKeys}

\* build_correction_record: the fields that vary between submissions
\* (message_id, run_id, review_item_id and artifact_refs come from the review
\* item).
build_correction_record(actor_id, created_at, corrections, correction_id) ==
    [actor_type |-> "HUMAN", actor_id |-> actor_id, created_at |-> created_at,
     corrections |-> corrections, correction_id |-> correction_id]

\* json.dumps(record, indent=2, sort_keys=True) + newline: one byte string
\* per record.
RecordBytes(record) == <<"json", record>>

\* submit_correction line 113: the sha256 of the existing and of the expected
\* bytes are compared.
SameBytes_Always(existing_bytes, expected_bytes) == TRUE

SameBytes(existing_bytes, expected_bytes) ==
    Sha256(existing_bytes) = Sha256(expected_bytes)

\* submit_correction lines 119-143: the HITL event, whose output_ref names the
\* correction file and its sha256, appended to the audit log.
HitlAuditAppend_Skip(file, actor_id, correction_id, out_bytes) == file

HitlAuditAppend(file, actor_id, correction_id, out_bytes) ==
    Append(file,
           SealEvent(build_audit_event("HITL", "HUMAN")
                        @@ [actor_id |-> actor_id,
                            output_ref |-> [uri |-> correction_id,
                                            sha256 |-> Sha256(out_bytes)]],
                     ReadLastHash(file)))

\* HitlService.submit_correction with created_at = _now_utc(): the correction
\* files and audit log afterwards and the exception raised, if any.
submit_correction(files, audit, actor_id, corrections, created_at, correction_id) ==
    LET record == build_correction_record(actor_id, created_at, corrections, correction_id)
        expected_bytes == RecordBytes(record)
    IN
    IF files[correction_id] # NoArtifact
    THEN IF ~SameBytes(files[correction_id], expected_bytes)
         THEN [files |-> files, audit |-> audit, raised |-> "IMMUTABILITY_VIOLATION"]
         ELSE [files |-> files, audit |-> audit, raised |-> "none"]
    ELSE [files |-> [files EXCEPT ![correction_id] = expected_bytes],
          audit |-> HitlAuditAppend(audit, actor_id, correction_id, expected_bytes),
          raised |-> "none"]

NoSubmit ==
    [n |-> 0, actor_id |-> "none", key |-> "none", if_match |-> NULL,
     corrections |-> "none", at |-> 0, status |-> 0, error |-> "none",
     detail |-> "none", correction_id |-> NULL, existed |-> FALSE]

\* Handler.do_POST for /api/review/items/<id>/corrections, from the ETag
\* check on: an authorised actor, an Idempotency-Key and a well-formed body.
SubmitCorrection(actor_id, key, if_match, corrections) ==
    LET etag == StableEtag(reviewItem)
        correction_id == IdempotencyCorrectionId(ReviewItemId, actor_id, key)
        r == submit_correction(correctionFiles, auditFile, actor_id, corrections,
                               clock, correction_id)
        req == [NoSubmit EXCEPT !.n = lastSubmit.n + 1, !.actor_id = actor_id,
                                !.key = key, !.if_match = if_match,
                                !.corrections = corrections, !.at = clock,
                                !.existed = correctionFiles[correction_id] # NoArtifact]
    IN
    /\ lastSubmit.n < MaxSubmits
    /\ Len(auditFile) < MaxAuditLen
    /\ IF ~ETagMatches(if_match, etag)
       THEN /\ lastSubmit' = [req EXCEPT !.status = 412, !.error = "ETAG_MISMATCH"]
            /\ UNCHANGED <<correctionFiles, auditFile>>
       ELSE /\ correctionFiles' = r.files
            /\ auditFile' = r.audit
            /\ lastSubmit' = IF r.raised = "none"
                             THEN [req EXCEPT !.status = 200, !.error = "OK",
                                              !.correction_id = correction_id]
                             ELSE [req EXCEPT !.status = 500, !.error = "FAILED",
                                              !.detail = r.raised]
    /\ UNCHANGED <<reviewItem, clock, apc, aprev, aevent, notHitl>>

\* A second passes.
Tick ==
    /\ clock < MaxClock
    /\ clock' = clock + 1
    /\ UNCHANGED <<reviewItem, correctionFiles, lastSubmit, auditVars, notHitl>>

InitHitl ==
    /\ reviewItem = CurrentItemBytes
    /\ correctionFiles = [c \in CorrectionIds |-> NoArtifact]
    /\ clock = 0
    /\ lastSubmit = NoSubmit

NextHitl ==
    \/ \E actor_id \in Actors, key \in IdempotencyKeys, if_match \in IfMatchValues,
          corrections \in Bodies :
            SubmitCorrection(actor_id, key, if_match, corrections)
    \/ Tick

\* A step that handled a submission.
SubmitStep == lastSubmit'.n = lastSubmit.n + 1

\* The correction id of the submission just handled.
SubmittedId == IdempotencyCorrectionId(ReviewItemId, lastSubmit.actor_id, lastSubmit.key)

\* The bytes the submission just handled stands for.
SubmittedBytes ==
    RecordBytes(build_correction_record(lastSubmit.actor_id, lastSubmit.at,
                                        lastSubmit.corrections, SubmittedId))

\* The record a correction file holds.
StoredRecord(bytes) == bytes[2]

\* C17: a submission whose If-Match is not the ETag of the review item's
\* current bytes is answered 412 ETAG_MISMATCH and leaves the correction
\* files and the audit log as they were.
C17_StaleIfMatchRejected ==
    [][(SubmitStep /\ lastSubmit'.if_match # StableEtag(reviewItem)) =>
          /\ lastSubmit'.status = 412
          /\ lastSubmit'.error = "ETAG_MISMATCH"
          /\ correctionFiles' = correctionFiles
          /\ auditFile' = auditFile]_vars

\* After an accepted correction, a submission carrying the ETag of the item's
\* earlier bytes was answered 412; its correction has no file and the audit
\* log has the one event of the accepted correction.
C17_Witness ==
    /\ lastSubmit.status = 412
    /\ lastSubmit.if_match = StableEtag(1)
    /\ reviewItem # 1
    /\ correctionFiles[SubmittedId] = NoArtifact
    /\ \E c \in CorrectionIds : correctionFiles[c] # NoArtifact
    /\ Len(auditFile) = 1

\* C18: a submission that repeats an accepted one (same If-Match, same
\* Idempotency-Key, actor, item and body), at whatever time, gets the same
\* correction_id and succeeds, and the one correction file keeps its bytes.
C18_ReplaySucceeds ==
    [][(/\ SubmitStep
        /\ ETagMatches(lastSubmit'.if_match, StableEtag(reviewItem))
        /\ lastSubmit'.existed
        /\ StoredRecord(correctionFiles[SubmittedId']).corrections = lastSubmit'.corrections)
       => /\ lastSubmit'.status = 200
          /\ lastSubmit'.correction_id = StoredRecord(correctionFiles[SubmittedId']).correction_id
          /\ correctionFiles' = correctionFiles]_vars

\* C19: a submission whose correction_id has a stored file that is not
\* byte-equal to the submission's canonical bytes fails with
\* IMMUTABILITY_VIOLATION and the stored file keeps its bytes.
C19_NonEqualRetryRejected ==
    [][(/\ SubmitStep
        /\ ETagMatches(lastSubmit'.if_match, StableEtag(reviewItem))
        /\ lastSubmit'.existed
        /\ correctionFiles[SubmittedId'] # SubmittedBytes')
       => /\ lastSubmit'.status = 500
          /\ lastSubmit'.detail = "IMMUTABILITY_VIOLATION"
          /\ correctionFiles' = correctionFiles]_vars

\* A submission with other corrections under the Idempotency-Key of a stored
\* correction has failed and the stored file holds the first corrections.
C19_Witness ==
    /\ lastSubmit.status = 500
    /\ lastSubmit.detail = "IMMUTABILITY_VIOLATION"
    /\ lastSubmit.existed
    /\ correctionFiles[SubmittedId] # NoArtifact
    /\ StoredRecord(correctionFiles[SubmittedId]).corrections # lastSubmit.corrections

\* The HITL events of the audit log whose output_ref names the correction.
HitlEventsFor(correction_id) ==
    {i \in 1..Len(auditFile) :
        /\ auditFile[i].stage = "HITL"
        /\ auditFile[i].output_ref.uri = correction_id}

\* C20: a correction has no HITL audit event while its file does not exist
\* and exactly one, naming the file's sha256, once it does, however many
\* submissions and replays of its correction_id were handled.
C20_OneHitlEventPerCorrection ==
    \A c \in CorrectionIds :
        IF correctionFiles[c] = NoArtifact
        THEN HitlEventsFor(c) = {}
        ELSE /\ Cardinality(HitlEventsFor(c)) = 1
             /\ \A i \in HitlEventsFor(c) :
                   auditFile[i].output_ref.sha256 = Sha256(correctionFiles[c])

\* A third submission replayed a stored correction and succeeded; the
\* correction still has its one event.
C20_Witness ==
    /\ lastSubmit.n = 3
    /\ lastSubmit.status = 200
    /\ lastSubmit.existed
    /\ correctionFiles[SubmittedId] = SubmittedBytes
    /\ Cardinality(HitlEventsFor(SubmittedId)) = 1

(***************************************************************************)
(* HITL review items and draft approvals                                   *)
(***************************************************************************)

\* Queue ids, as the words between their underscores.
QUEUE_POLICY_SERVICE == <<"QUEUE", "POLICY", "SERVICE">>
QUEUE_INTAKE_REVIEW_GENERAL == <<"QUEUE", "INTAKE", "REVIEW", "GENERAL">>
QUEUE_PRIVACY_DSR == <<"QUEUE", "PRIVACY", "DSR">>

ReviewQueueIds == {QUEUE_POLICY_SERVICE, QUEUE_INTAKE_REVIEW_GENERAL, QUEUE_PRIVACY_DSR}

\* The action lists routing decisions carry here.
ReviewActionSets ==
    { {"CREATE_CASE", "ATTACH_ORIGINAL_EMAIL"},
      {"BLOCK_CASE_CREATE", "ATTACH_ORIGINAL_EMAIL"},
      {"CREATE_CASE", "ADD_REQUEST_INFO_DRAFT"},
      {"CREATE_CASE", "ADD_REPLY_DRAFT"} }

RoutingDecisions ==
    [queue_id : ReviewQueueIds, fail_closed : BOOLEAN, actions : ReviewActionSets]

\* _needs_review
needs_review_FailClosedOnly(routing) == routing.fail_closed

needs_review(routing) ==
    \/ InSeq("REVIEW", routing.queue_id)
    \/ routing.fail_closed
    \/ "BLOCK_CASE_CREATE" \in routing.actions
    \/ "ADD_REQUEST_INFO_DRAFT" \in routing.actions
    \/ "ADD_REPLY_DRAFT" \in routing.actions

\* build_review_item: review_item_id is uuid5 of message, run, queue and the
\* sha256 of the routing file; draft_refs name the drafts found in drafts_dir.
build_review_item(routing, drafts) ==
    [review_item_id |-> <<"review", routing.queue_id, Sha256(routing)>>,
     queue_id |-> routing.queue_id,
     fail_closed |-> routing.fail_closed,
     draft_refs |-> drafts]

\* FileReviewStore.write: an existing file is kept.
ReviewStoreWrite(file, item) ==
    IF file # NoArtifact THEN file ELSE RecordBytes(item)

\* HitlReviewItemsRunner.run, on a normalized_dir holding one message and
\* without audit logger.
ReviewRun ==
    /\ reviewRan' = TRUE
    /\ reviewItemFile' =
          IF needs_review(routingFile)
          THEN ReviewStoreWrite(reviewItemFile, build_review_item(routingFile, draftDir))
          ELSE reviewItemFile
    /\ reviewRan' # reviewRan \/ reviewItemFile' # reviewItemFile
    /\ UNCHANGED <<routingFile, draftDir, rbacConfig, lastDraft, auditVars, hitlVars,
                   notReview>>

\* The role mappings of the API contract test, and the same with a
\* privacy_officer role that may not approve drafts.
RolePermissions(raw, audit, approve) ==
    [can_view_raw |-> raw, can_view_audit |-> audit, can_approve_drafts |-> approve]

RbacConfigs ==
    { [agent |-> RolePermissions(FALSE, TRUE, FALSE),
       reviewer |-> RolePermissions(TRUE, TRUE, TRUE),
       privacy_officer |-> RolePermissions(TRUE, TRUE, po),
       administrator |-> RolePermissions(TRUE, TRUE, TRUE)] : po \in BOOLEAN }

\* RbacConfig.permissions_for_roles: the union over the mapped roles.
permissions_for_roles(rbac, roles) ==
    LET mapped == roles \cap DOMAIN rbac
    IN  RolePermissions(\E r \in mapped : rbac[r].can_view_raw,
                        \E r \in mapped : rbac[r].can_view_audit,
                        \E r \in mapped : rbac[r].can_approve_drafts)

\* The authenticated actors.
ApiActors ==
    { [actor_id |-> "agent1", roles |-> {"agent"}],
      [actor_id |-> "reviewer1", roles |-> {"reviewer"}],
      [actor_id |-> "privacy1", roles |-> {"privacy_officer"}],
      [actor_id |-> "admin1", roles |-> {"administrator"}] }

DraftKinds == {"request_info", "reply"}

DraftSchemaId(draft_kind) ==
    IF draft_kind = "request_info" THEN "DRAFT_REQUEST_INFO" ELSE "DRAFT_REPLY"

\* The Idempotency-Key header: empty or a key.
DraftKeyHeaders == {"", "k1"}

\* The If-Match header: the ETag of the review item as it is, or the ETag of
\* a review item built over other drafts.
IfMatchHeaders == {"current", "stale"}

IfMatchOf(header, routing, drafts) ==
    CASE header = "current" -> StableEtag(RecordBytes(build_review_item(routing, drafts)))
      [] header = "stale" -> StableEtag(RecordBytes(build_review_item(routing, {"DRAFT_OLD"})))

\* do_POST line 952: the privacy queue asks for a privacy role.
PrivacyRoleOk_Any(queue_id, roles) == TRUE

PrivacyRoleOk(queue_id, roles) ==
    ~(queue_id = QUEUE_PRIVACY_DSR /\ "privacy_officer" \notin roles
                                   /\ "administrator" \notin roles)

\* The corrections of a draft decision and its idempotency key.
DraftCorrections(draft_kind, action) == <<"draft_approvals", DraftSchemaId(draft_kind), action>>

DraftKey(draft_kind, action, key) == <<"draft", draft_kind, action, key>>

DraftCorrectionIds(routing, drafts) ==
    {IdempotencyCorrectionId(build_review_item(routing, drafts).review_item_id,
                             a.actor_id, DraftKey(k, "approve", key)) :
        a \in ApiActors, k \in DraftKinds, key \in DraftKeyHeaders}

NoDraftRequest ==
    [actor_id |-> "none", roles |-> {}, draft_kind |-> "none", key |-> "",
     if_match |-> "none", item_queue |-> NULL, status |-> 0, wrote |-> FALSE]

\* Handler.do_POST for /api/review/items/<id>/drafts/<kind>/approve, for an
\* authenticated actor and the id of the message's review item.
DraftDecision(actor, draft_kind, key, if_match) ==
    LET perms == permissions_for_roles(rbacConfig, actor.roles)
        item == StoredRecord(reviewItemFile)
        etag == StableEtag(reviewItemFile)
        correction_id == IdempotencyCorrectionId(item.review_item_id, actor.actor_id,
                                                 DraftKey(draft_kind, "approve", key))
        r == submit_correction(correctionFiles, auditFile, actor.actor_id,
                               DraftCorrections(draft_kind, "APPROVE"), clock,
                               correction_id)
        status ==
            IF ~perms.can_view_audit \/ ~perms.can_approve_drafts THEN 403
            ELSE IF key = "" THEN 400
            ELSE IF reviewItemFile = NoArtifact THEN 404
            ELSE IF ~ETagMatches(IfMatchOf(if_match, routingFile, draftDir), etag) THEN 412
            ELSE IF ~PrivacyRoleOk(item.queue_id, actor.roles) THEN 403
            ELSE IF DraftSchemaId(draft_kind) \notin item.draft_refs THEN 404
            ELSE IF r.raised # "none" THEN 500
            ELSE 200
    IN
    /\ Len(auditFile) < MaxAuditLen
    /\ IF status = 200
       THEN /\ correctionFiles' = r.files
            /\ auditFile' = r.audit
       ELSE UNCHANGED <<correctionFiles, auditFile>>
    /\ lastDraft' = [actor_id |-> actor.actor_id, roles |-> actor.roles,
                     draft_kind |-> draft_kind, key |-> key, if_match |-> if_match,
                     item_queue |-> IF reviewItemFile = NoArtifact THEN NULL
                                    ELSE item.queue_id,
                     status |-> status,
                     wrote |-> status = 200 /\ r.files # correctionFiles]
    /\ UNCHANGED <<routingFile, draftDir, rbacConfig, reviewRan, reviewItemFile,
                   reviewItem, clock, lastSubmit, apc, aprev, aevent, notReview>>

\* Outside the review specification there is one routing decision, which
\* asks for no review.
NoReviewInput ==
    /\ routingFile = [queue_id |-> QUEUE_POLICY_SERVICE, fail_closed |-> FALSE,
                      actions |-> {"CREATE_CASE"}]
    /\ draftDir = {}
    /\ rbacConfig \in {c \in RbacConfigs : c.privacy_officer.can_approve_drafts}
    /\ reviewRan = FALSE
    /\ reviewItemFile = NoArtifact
    /\ lastDraft = NoDraftRequest

InitReviewInput ==
    /\ routingFile \in RoutingDecisions
    /\ draftDir \in {{}, {"DRAFT_REQUEST_INFO"}}
    /\ rbacConfig \in RbacConfigs
    /\ reviewRan = FALSE
    /\ reviewItemFile = NoArtifact
    /\ lastDraft = NoDraftRequest

NextReview ==
    \/ ReviewRun
    \/ \E actor \in ApiActors, draft_kind \in DraftKinds, key \in DraftKeyHeaders,
          if_match \in IfMatchHeaders :
            DraftDecision(actor, draft_kind, key, if_match)

\* The message's review item has been written.
ReviewItemWritten == reviewItemFile # NoArtifact

\* C21 as stated: after the run a review item is there exactly when routing
\* demands review, and exactly for the fail-closed decisions.
C21_ReviewItemIffFailClosed ==
    reviewRan =>
        /\ ReviewItemWritten <=>
              \/ InSeq("REVIEW", routingFile.queue_id)
              \/ routingFile.fail_closed
              \/ routingFile.actions \cap {"BLOCK_CASE_CREATE", "ADD_REQUEST_INFO_DRAFT",
                                           "ADD_REPLY_DRAFT"} # {}
        /\ ReviewItemWritten <=> routingFile.fail_closed

\* C21, amended: after the run a review item is there exactly when the queue
\* name contains REVIEW, or fail_closed is true, or the actions contain
\* BLOCK_CASE_CREATE, ADD_REQUEST_INFO_DRAFT or ADD_REPLY_DRAFT; so every
\* fail-closed decision has one, and a decision that is not fail-closed has
\* one when its queue or actions ask for it.
C21_ReviewItemIffDemanded ==
    reviewRan =>
        /\ ReviewItemWritten <=>
              \/ InSeq("REVIEW", routingFile.queue_id)
              \/ routingFile.fail_closed
              \/ routingFile.actions \cap {"BLOCK_CASE_CREATE", "ADD_REQUEST_INFO_DRAFT",
                                           "ADD_REPLY_DRAFT"} # {}
        /\ routingFile.fail_closed => ReviewItemWritten
        /\ ReviewItemWritten =>
              StoredRecord(reviewItemFile).queue_id = routingFile.queue_id

\* A decision that is not fail-closed and blocks nothing has a review item
\* because its queue is a review queue.
C21_Witness ==
    /\ reviewRan
    /\ ReviewItemWritten
    /\ ~routingFile.fail_closed
    /\ routingFile.queue_id = QUEUE_INTAKE_REVIEW_GENERAL
    /\ routingFile.actions = {"CREATE_CASE", "ATTACH_ORIGINAL_EMAIL"}

\* The last draft request met a review item of the privacy queue.
PrivacyDraftRequest == lastDraft.status # 0 /\ lastDraft.item_queue = QUEUE_PRIVACY_DSR

\* The actor of the last draft request has can_approve_drafts and the role
\* privacy_officer or administrator.
PrivacyApprover ==
    /\ permissions_for_roles(rbacConfig, lastDraft.roles).can_approve_drafts
    /\ lastDraft.roles \cap {"privacy_officer", "administrator"} # {}

\* C22 as stated: a draft approval on an item of the privacy queue succeeds
\* only for an actor with can_approve_drafts and a privacy role; every other
\* actor is answered 403 and no correction record is written.
C22_PrivacyApprovalOr403 ==
    PrivacyDraftRequest =>
        /\ lastDraft.status = 200 => PrivacyApprover
        /\ ~PrivacyApprover => (lastDraft.status = 403 /\ ~lastDraft.wrote)

\* C22, amended: a draft approval on an item of the privacy queue succeeds
\* only for an actor with can_approve_drafts and a privacy role; every other
\* actor is refused and no correction record is written.  The refusal is 403
\* when the actor lacks can_view_audit or can_approve_drafts, and otherwise
\* 400 without Idempotency-Key, 412 with a stale If-Match and 403 when both
\* are in order.
C22_PrivacyApprovalOrRefused ==
    PrivacyDraftRequest =>
        LET perms == permissions_for_roles(rbacConfig, lastDraft.roles)
        IN
        /\ lastDraft.status = 200 => PrivacyApprover
        /\ ~PrivacyApprover =>
              /\ ~lastDraft.wrote
              /\ lastDraft.status =
                    IF ~perms.can_view_audit \/ ~perms.can_approve_drafts THEN 403
                    ELSE IF lastDraft.key = "" THEN 400
                    ELSE IF lastDraft.if_match # "current" THEN 412
                    ELSE 403

\* A reviewer, who may approve drafts elsewhere, sent a well-formed approval
\* for an item of the privacy queue and was answered 403; after that the
\* privacy officer's approval is the one correction on file.
C22_Witness ==
    /\ PrivacyDraftRequest
    /\ lastDraft.actor_id = "reviewer1"
    /\ lastDraft.key # ""
    /\ lastDraft.if_match = "current"
    /\ lastDraft.status = 403
    /\ Len(auditFile) = 1
    /\ auditFile[1].actor_id = "privacy1"

(***************************************************************************)
(* Attachment stage: ieim/attachments/stage.py, av.py, ocr.py              *)
(***************************************************************************)

NumAttachMessages == 2

AttachMessages == 1..NumAttachMessages

\* AVScanner.scan returns one of the AV_STATUS_* strings.
AvStatuses == {"CLEAN", "INFECTED", "SUSPICIOUS", "FAILED"}

\* MIME types whose name starts with "text/".
TextMimeTypes == {"text/plain"}

\* MailIngestAdapter.list_attachments: the attachments of a message.  Bytes
\* are sequences of byte values; a source attachment id is <<"uuid", n>> when
\* it parses as a UUID and <<"name", n>> when it does not; a filename is
\* given by its suffix.
list_attachments(m) ==
    IF m % 2 = 1
    THEN << [attachment_id |-> <<"name", 1>>, filename |-> ".txt",
             mime_type |-> "text/plain", data |-> <<104, 105>>],
            [attachment_id |-> <<"uuid", m>>, filename |-> ".png",
             mime_type |-> "", data |-> <<137, 80>>] >>
    ELSE << [attachment_id |-> <<"name", 1>>, filename |-> ".txt",
             mime_type |-> "", data |-> <<104, 255>>] >>

\* mimetypes.guess_type, by the suffix of the filename.
GuessType(filename) ==
    CASE filename = ".txt" -> "text/plain"
      [] filename = ".png" -> "image/png"
      [] OTHER -> ""

\* _best_effort_mime_type
best_effort_mime_type(filename, declared) ==
    IF declared # "" THEN declared
    ELSE IF GuessType(filename) # "" THEN GuessType(filename)
    ELSE "application/octet-stream"

\* data.decode("utf-8", errors="replace").encode("utf-8"): bytes below 128
\* are kept, every other byte here is a lone invalid byte and becomes
\* U+FFFD, encoded EF BF BD.
RECURSIVE Utf8Replace(_)
Utf8Replace(data) ==
    IF data = <<>> THEN <<>>
    ELSE (IF Head(data) < 128 THEN <<Head(data)>> ELSE <<239, 191, 189>>)
         \o Utf8Replace(Tail(data))

\* _extract_text followed by the encode of line 96: None (NULL) unless the
\* MIME type starts with "text/", else the text bytes in a one-element tuple.
extract_text(mime_type, data) ==
    IF mime_type \notin TextMimeTypes THEN NULL ELSE <<Utf8Replace(data)>>

\* What TesseractOCRProcessor.ocr can return for an image: None, or a result
\* whose text (encoded) is one of these.
OcrTexts == {<<79, 75>>}

\* OCRProcessor.ocr: None unless the MIME type starts with "image/"; for an
\* image the outcome of the tesseract run, which can be None as well.
OcrOutcomes(mime_type) ==
    IF mime_type = "image/png" THEN {NULL} \cup {<<x>> : x \in OcrTexts} ELSE {NULL}

\* _derive_attachment_id: the source id when it is a UUID, else uuid5 of
\* "att:{message_id}:{source_attachment_id}:{sha256}", which is determined
\* by the three parts.
derive_attachment_id(message_id, source_attachment_id, sha256) ==
    IF source_attachment_id[1] = "uuid"
    THEN <<source_attachment_id, 0, NULL>>
    ELSE <<source_attachment_id, message_id, sha256>>

AttIdOf(m, att) == derive_attachment_id(m, att.attachment_id, Sha256(att.data))

AttachmentKeys == {<<m, i>> : m \in AttachMessages, i \in 1..2}

AttachmentRefs == {k \in AttachmentKeys : k[2] <= Len(list_attachments(k[1]))}

ArtifactIds == {AttIdOf(k[1], list_attachments(k[1])[k[2]]) : k \in AttachmentRefs}

\* Line 93: text is extracted only from an attachment scanned CLEAN.
TextGate(av_status) == av_status = "CLEAN"

\* One pass of the loop body of process_message (lines 79-159) over the
\* state st = [raw, text, files, puts, processed]; av_status is the
\* scanner's answer and ocr the OCR processor's.
ProcessAttachment(st, message_id, att, av_status, ocr) ==
    LET sha == Sha256(att.data)
        mime_type == best_effort_mime_type(att.filename, att.mime_type)
        extracted == IF TextGate(av_status) THEN extract_text(mime_type, att.data) ELSE NULL
        useOcr == TextGate(av_status) /\ extracted = NULL /\ ocrProcessor # "none"
                    /\ ocr # NULL
        text == IF extracted # NULL THEN extracted ELSE IF useOcr THEN ocr ELSE NULL
        attachment_id == derive_attachment_id(message_id, att.attachment_id, sha)
        artifact == [attachment_id |-> attachment_id,
                     message_id |-> message_id,
                     filename |-> att.filename,
                     mime_type |-> mime_type,
                     size_bytes |-> Len(att.data),
                     sha256 |-> sha,
                     av_status |-> av_status,
                     extracted_text_uri |->
                         IF text = NULL THEN NULL
                         ELSE <<"raw_store/attachment_text", Sha256(text[1])>>,
                     extracted_text_sha256 |->
                         IF text = NULL THEN NULL ELSE Sha256(text[1]),
                     ocr_applied |-> useOcr]
        stored == IF st.files[attachment_id] = NoArtifact
                  THEN artifact ELSE st.files[attachment_id]
    IN  [raw |-> st.raw \cup {sha},
         text |-> IF text = NULL THEN st.text ELSE st.text \cup {Sha256(text[1])},
         files |-> [st.files EXCEPT ![attachment_id] = stored],
         puts |-> IF text = NULL THEN st.puts
                  ELSE st.puts \cup {<<attachment_id, Sha256(text[1])>>},
         processed |-> Append(st.processed,
                              [attachment_id |-> attachment_id,
                               raw_ref |-> sha,
                               artifact_ref |-> Sha256(stored)])]

RECURSIVE ProcessAttachments(_, _, _, _, _, _)
ProcessAttachments(st, message_id, atts, i, verdicts, ocrs) ==
    IF i > Len(atts) THEN st
    ELSE ProcessAttachments(
             ProcessAttachment(st, message_id, atts[i], verdicts[i], ocrs[i]),
             message_id, atts, i + 1, verdicts, ocrs)

NoProcessed == [message_id |-> 0, verdicts |-> <<>>, processed |-> <<>>]

\* AttachmentStage.process_message(message_id, source_ref, created_at)
ProcessMessage(m, verdicts, ocrs) ==
    LET atts == list_attachments(m)
        st == ProcessAttachments(
                  [raw |-> rawAttachments, text |-> attachmentText,
                   files |-> artifactFiles, puts |-> textPuts, processed |-> <<>>],
                  m, atts, 1, verdicts, ocrs)
    IN  /\ rawAttachments' = st.raw
        /\ attachmentText' = st.text
        /\ artifactFiles' = st.files
        /\ textPuts' = st.puts
        /\ lastProcessed' = [message_id |-> m, verdicts |-> verdicts,
                             processed |-> st.processed]
        /\ UNCHANGED <<ocrProcessor, notAttach>>

NoAttachInput ==
    /\ ocrProcessor = "none"
    /\ rawAttachments = {}
    /\ attachmentText = {}
    /\ artifactFiles = [id \in ArtifactIds |-> NoArtifact]
    /\ textPuts = {}
    /\ lastProcessed = NoProcessed

InitAttach ==
    /\ ocrProcessor \in {"none", "tesseract"}
    /\ rawAttachments = {}
    /\ attachmentText = {}
    /\ artifactFiles = [id \in ArtifactIds |-> NoArtifact]
    /\ textPuts = {}
    /\ lastProcessed = NoProcessed

\* The ingest runner calls process_message for every message it has not
\* recorded as processed; a run that stops before the dedupe state is
\* written processes the same message again.
NextAttach ==
    \E m \in AttachMessages :
        LET atts == list_attachments(m)
        IN  \E verdicts \in [1..Len(atts) -> AvStatuses] :
            \E ocrs \in [1..Len(atts) -> UNION {OcrOutcomes(mt) : mt \in {"image/png"}}] :
                /\ \A i \in 1..Len(atts) :
                       ocrs[i] \in OcrOutcomes(best_effort_mime_type(atts[i].filename,
                                                                     atts[i].mime_type))
                /\ ProcessMessage(m, verdicts, ocrs)

Artifacts == {artifactFiles[id] : id \in {i \in ArtifactIds : artifactFiles[i] # NoArtifact}}

\* C23: every attachment artifact whose av_status is not CLEAN has neither
\* extracted_text_uri nor extracted_text_sha256, and no attachment_text
\* object has been stored for that attachment.
C23_UncleanHasNoText ==
    \A a \in Artifacts :
        a.av_status # "CLEAN" =>
            /\ a.extracted_text_uri = NULL
            /\ a.extracted_text_sha256 = NULL
            /\ \A p \in textPuts : p[1] # a.attachment_id

\* The part of C23 about the artifact's own fields.
C23_UncleanArtifactFields ==
    \A a \in Artifacts :
        a.av_status # "CLEAN" =>
            a.extracted_text_uri = NULL /\ a.extracted_text_sha256 = NULL

(***************************************************************************)
(* Gated LLM fallback: ieim/llm/gating.py, adapter.py, file_cache.py,      *)
(* mapping.py and ClassifyExtractRunner.run of p4_classify_extract.py      *)
(***************************************************************************)

MaxCallsPerDay == 2
MaxDay == 2

\* classification.min_confidence_for_auto, in hundredths (0.80).
MinConfidenceForAuto == 80

\* The message whose normalized record the runs read, and the runs (worker
\* processes) that can be under way at the same time.
LlmMessages == {1}
LlmWorkers == {1, 2}
LlmDays == 1..MaxDay

LlmConfigs ==
    [determinism_mode : BOOLEAN, disable_llm : BOOLEAN, enabled : BOOLEAN,
     provider : {"openai", "disabled"},
     min_confidence_for_auto : {MinConfidenceForAuto},
     max_calls_per_day : 0..MaxCallsPerDay]

\* What DeterministicClassifier.classify and DeterministicExtractor.extract
\* give for a message: primary_intent.confidence in hundredths, the labels
\* of the risk flags, the entity types found.
DetInputs ==
    { [confidence |-> 10, risk_flags |-> {}, entities |-> {}],
      [confidence |-> 10, risk_flags |-> {}, entities |-> {"ENT_POLICY_NUMBER"}],
      [confidence |-> 10, risk_flags |-> {"RISK_LEGAL_THREAT"}, entities |-> {}],
      [confidence |-> 80, risk_flags |-> {}, entities |-> {}],
      [confidence |-> 90, risk_flags |-> {}, entities |-> {}] }

\* should_call_llm_classify with the risk-flag test of lines 24-26 left out.
should_call_llm_classify_IgnoreRisk(config, det) ==
    IF config.determinism_mode THEN [allowed |-> FALSE, reason |-> "DETERMINISM_MODE"]
    ELSE IF config.disable_llm THEN [allowed |-> FALSE, reason |-> "INCIDENT_DISABLE_LLM"]
    ELSE IF ~config.enabled THEN [allowed |-> FALSE, reason |-> "DISABLED"]
    ELSE IF config.provider = "disabled"
         THEN [allowed |-> FALSE, reason |-> "DISABLED_PROVIDER"]
    ELSE IF det.confidence >= config.min_confidence_for_auto
         THEN [allowed |-> FALSE, reason |-> "CONFIDENCE_HIGH_ENOUGH"]
    ELSE [allowed |-> TRUE, reason |-> "LOW_CONFIDENCE_NO_RISK_FLAGS"]

\* should_call_llm_classify
should_call_llm_classify(config, det) ==
    IF config.determinism_mode THEN [allowed |-> FALSE, reason |-> "DETERMINISM_MODE"]
    ELSE IF config.disable_llm THEN [allowed |-> FALSE, reason |-> "INCIDENT_DISABLE_LLM"]
    ELSE IF ~config.enabled THEN [allowed |-> FALSE, reason |-> "DISABLED"]
    ELSE IF config.provider = "disabled"
         THEN [allowed |-> FALSE, reason |-> "DISABLED_PROVIDER"]
    ELSE IF det.risk_flags # {}
         THEN [allowed |-> FALSE, reason |-> "RISK_FLAGS_PRESENT"]
    ELSE IF det.confidence >= config.min_confidence_for_auto
         THEN [allowed |-> FALSE, reason |-> "CONFIDENCE_HIGH_ENOUGH"]
    ELSE [allowed |-> TRUE, reason |-> "LOW_CONFIDENCE_NO_RISK_FLAGS"]

\* should_call_llm_extract with the test of line 37 left out.
should_call_llm_extract_IgnoreUsed(classify_llm_used, entities) ==
    IF entities # {}
    THEN [allowed |-> FALSE, reason |-> "ENTITIES_ALREADY_EXTRACTED"]
    ELSE [allowed |-> TRUE, reason |-> "NO_ENTITIES_AND_CLASSIFY_USED_LLM"]

\* should_call_llm_extract
should_call_llm_extract(classify_llm_used, entities) ==
    IF ~classify_llm_used THEN [allowed |-> FALSE, reason |-> "CLASSIFY_LLM_NOT_USED"]
    ELSE IF entities # {}
         THEN [allowed |-> FALSE, reason |-> "ENTITIES_ALREADY_EXTRACTED"]
    ELSE [allowed |-> TRUE, reason |-> "NO_ENTITIES_AND_CLASSIFY_USED_LLM"]

\* ---- the canonical text and the grounding of snippets -------------------

\* subject_c14n of every message, as characters; body_text_c14n is empty.
\* The text holds no e-mail address and no IBAN, so redact_preserve_length
\* masks nothing in it.
SubjectC14n == <<"h", "i">>

\* str.lower
LowerChar(c) == IF c = "H" THEN "h" ELSE c

Lower(s) == [i \in 1..Len(s) |-> LowerChar(s[i])]

\* str.strip
RECURSIVE StripLeft(_)
StripLeft(s) == IF s # <<>> /\ Head(s) = " " THEN StripLeft(Tail(s)) ELSE s

RECURSIVE StripRight(_)
StripRight(s) ==
    IF s # <<>> /\ s[Len(s)] = " " THEN StripRight(SubSeq(s, 1, Len(s) - 1)) ELSE s

Strip(s) == StripRight(StripLeft(s))

\* str.find: the lowest 0-based index where needle occurs in text, else -1.
Find(text, needle) ==
    LET hits == {i \in 0..(Len(text) - Len(needle)) :
                    SubSeq(text, i + 1, i + Len(needle)) = needle}
    IN  IF hits = {} THEN -1 ELSE CHOOSE i \in hits : \A j \in hits : i <= j

\* _find_span_from_snippet: the error raised, or "none".
find_span_error(snippet, subject, body) ==
    LET needle == Lower(Strip(snippet))
    IN  IF needle = <<>> THEN "LLM_MAPPING_ERROR"
        ELSE IF Find(subject, needle) # -1 THEN "none"
        ELSE IF Find(body, needle) # -1 THEN "none"
        ELSE "LLM_MAPPING_ERROR"

\* load_canonical_label_sets()["INTENT"] and ["ENT"], the labels used here.
CanonicalIntents == {"INTENT_CLAIM_NEW", "INTENT_GENERAL_INQUIRY"}
CanonicalEntities == {"ENT_POLICY_NUMBER", "ENT_CLAIM_NUMBER"}

\* Contract-valid ClassifyLLMOutput objects a provider can answer with: one
\* intent with its label, confidence (hundredths) and evidence snippet.
ClassifyOutputs ==
    { [label |-> "INTENT_CLAIM_NEW", confidence |-> 90, snippet |-> <<"h", "i">>],
      [label |-> "INTENT_CLAIM_NEW", confidence |-> 70, snippet |-> <<" ", "H", "i">>],
      [label |-> "INTENT_NOT_REAL", confidence |-> 90, snippet |-> <<"h", "i">>],
      [label |-> "INTENT_CLAIM_NEW", confidence |-> 90, snippet |-> <<"n", "o">>] }

\* Contract-valid ExtractLLMOutput objects: one entity whose snippet holds a
\* value found in the text.
ExtractOutputs ==
    { [entity_type |-> "ENT_CLAIM_NUMBER"], [entity_type |-> "ENT_NOT_REAL"] }

LlmOutputs(stage) == IF stage = "classify" THEN ClassifyOutputs ELSE ExtractOutputs

\* What chat_json followed by _parse_json_response and
\* validate_contract_output of _call can come to.
ProviderOutcomes(stage) ==
    {[kind |-> "LLM_PROVIDER_ERROR", output |-> NULL],
     [kind |-> "LLM_CONTRACT_VIOLATION", output |-> NULL]}
    \cup {[kind |-> "ok", output |-> <<o>>] : o \in LlmOutputs(stage)}

\* A classification result: primary_intent, the labels of the risk flags
\* and model_info (NULL for None).
DeterministicClassification(det) ==
    [primary_intent |-> [label |-> "INTENT_CLAIM_NEW", confidence |-> det.confidence],
     risk_flags |-> det.risk_flags,
     model_info |-> NULL]

\* _fail_closed_review_classification
fail_closed_review_classification(deterministic_risk_flags) ==
    [primary_intent |-> [label |-> "INTENT_GENERAL_INQUIRY", confidence |-> 0],
     risk_flags |-> deterministic_risk_flags,
     model_info |-> NULL]

\* build_classification_result_from_llm: the error raised or "none", and
\* the classification result.
build_classification_result_from_llm(llm_output, provider, deterministic_risk_flags) ==
    LET err == IF llm_output.label \notin CanonicalIntents THEN "LLM_MAPPING_ERROR"
               ELSE find_span_error(llm_output.snippet, SubjectC14n, <<>>)
    IN  [raised |-> err,
         classification_result |->
             [primary_intent |-> [label |-> llm_output.label,
                                  confidence |-> llm_output.confidence],
              risk_flags |-> deterministic_risk_flags,
              model_info |-> <<provider>>]]

\* merge_llm_extraction_into_result: the error raised or "none", and the
\* merged entity types.
merge_llm_extraction_into_result(entities, llm_output) ==
    IF llm_output.entity_type \notin CanonicalEntities
    THEN [raised |-> "LLM_MAPPING_ERROR", entities |-> entities]
    ELSE [raised |-> "none", entities |-> entities \cup {llm_output.entity_type}]

\* ---- cache and counter ---------------------------------------------------

\* LLMCacheKey.stable_id: sha256 of the canonical JSON of the key; model
\* name, model version, prompt version and prompt hash are fixed.
stable_id(stage, provider, message_fingerprint) ==
    Sha256(<<message_fingerprint, provider, stage>>)

LlmStages == {"classify", "extract"}

LlmCacheKeys ==
    {stable_id(st, p, m) : st \in LlmStages, p \in {"openai", "disabled"},
                           m \in LlmMessages}

\* FileLLMCache.put that replaces an existing file.
LlmCachePut_Overwrite(cache, key, response, now) ==
    [raised |-> "none",
     cache |-> [cache EXCEPT ![key] = <<[response |-> response, stored_at |-> now]>>]]

\* FileLLMCache.put: the error raised or "none", and the cache directory.
LlmCachePut(cache, key, response, now) ==
    IF cache[key] # NULL
    THEN IF cache[key][1].response # response
         THEN [raised |-> "IMMUTABILITY_VIOLATION", cache |-> cache]
         ELSE [raised |-> "none", cache |-> cache]
    ELSE [raised |-> "none",
          cache |-> [cache EXCEPT ![key] = <<[response |-> response, stored_at |-> now]>>]]

\* DailyCallCounter.can_consume with the comparison of line 131 left out.
can_consume_Always(by_date, today, max_calls_per_day) == max_calls_per_day > 0

\* DailyCallCounter.can_consume
can_consume(by_date, today, max_calls_per_day) ==
    IF max_calls_per_day <= 0 THEN FALSE ELSE by_date[today] < max_calls_per_day

\* DailyCallCounter.consume
consume(by_date, today) == [by_date EXCEPT ![today] = @ + 1]

\* ---- ClassifyExtractRunner.run for one message, LLMAdapter calls ---------

NoCtx ==
    [m |-> 0, stage |-> "none", attempt |-> 0, classification |-> NULL,
     classify_llm_used |-> FALSE, gate |-> "none", caught_classify |-> "none",
     extract_called |-> FALSE, calls |-> 0]

NoLlmPut == [key |-> NULL, response |-> NULL, before |-> NULL, raised |-> "none", n |-> 0]

NoP4 ==
    [m |-> 0, gate |-> "none", caught_classify |-> "none", caught_extract |-> "none",
     classify_llm_used |-> FALSE, extract_called |-> FALSE, calls |-> 0,
     classification |-> NULL]

\* The files and locals a step of a worker reads and writes.
LlmWorld ==
    [cache |-> llmCache, by_date |-> dailyCalls, calls |-> providerCalls,
     cls |-> llmClassification, ex |-> llmExtraction, pc |-> wpc, ctx |-> wctx,
     put |-> lastLlmPut, last |-> lastP4]

\* Lines 259-274 and 364: both artifacts are written, the message is done.
P4Finish(s, w, entities, extract_model_info, caught_extract) ==
    LET c == s.ctx[w]
    IN  [s EXCEPT !.cls[c.m] = c.classification,
                  !.ex[c.m] = <<[entities |-> entities, model_info |-> extract_model_info]>>,
                  !.pc[w] = "idle",
                  !.ctx[w] = NoCtx,
                  !.last = [m |-> c.m, gate |-> c.gate,
                            caught_classify |-> c.caught_classify,
                            caught_extract |-> caught_extract,
                            classify_llm_used |-> c.classify_llm_used,
                            extract_called |-> c.extract_called,
                            calls |-> c.calls,
                            classification |-> c.classification]]

RECURSIVE LlmCallEnter(_, _, _, _)
RECURSIVE LlmCallReturn(_, _, _, _)

\* Lines 224-256 of run: deterministic extraction, the extraction gate and
\* llm.extract.
P4Extract(s, w) ==
    LET c == s.ctx[w]
        gate_ex == should_call_llm_extract(c.classify_llm_used, llmDet[c.m].entities)
    IN  IF gate_ex.allowed
        THEN LlmCallEnter([s EXCEPT !.ctx[w].extract_called = TRUE], w, "extract", 1)
        ELSE P4Finish(s, w, llmDet[c.m].entities, NULL, "none")

\* Lines 203-222 of run: what follows llm.classify, res being its return
\* value or the exception it raised.
P4AfterClassify(s, w, res) ==
    LET c == s.ctx[w]
        flags == llmDet[c.m].risk_flags
        mapped == build_classification_result_from_llm(res.output[1], llmConfig.provider, flags)
        err == IF res.raised # "none" THEN res.raised ELSE mapped.raised
    IN  IF err # "none"
        THEN P4Extract([s EXCEPT !.ctx[w].classification =
                                     <<fail_closed_review_classification(flags)>>,
                                 !.ctx[w].classify_llm_used = FALSE,
                                 !.ctx[w].caught_classify = err], w)
        ELSE P4Extract([s EXCEPT !.ctx[w].classification = <<mapped.classification_result>>,
                                 !.ctx[w].classify_llm_used = TRUE], w)

\* Lines 236-256 of run: what follows llm.extract.
P4AfterExtract(s, w, res) ==
    LET c == s.ctx[w]
        entities == llmDet[c.m].entities
        merged == merge_llm_extraction_into_result(entities, res.output[1])
        err == IF res.raised # "none" THEN res.raised ELSE merged.raised
    IN  IF err # "none"
        THEN P4Finish(s, w, entities, NULL, err)
        ELSE P4Finish(s, w, merged.entities, <<llmConfig.provider>>, "none")

\* LLMAdapter.classify and extract return res to run, or raise res.raised.
LlmCallReturn(s, w, stage, res) ==
    IF stage = "classify" THEN P4AfterClassify(s, w, res) ELSE P4AfterExtract(s, w, res)

\* LLMAdapter._call raised LLMAdapterError: classify and extract catch it
\* on the first attempt and call _call once more (lines 231-241, 274-284).
LlmCallFailed(s, w, stage, attempt, kind) ==
    IF attempt = 1 THEN LlmCallEnter(s, w, stage, 2)
    ELSE LlmCallReturn(s, w, stage, [raised |-> kind, output |-> NULL])

\* LLMAdapter._call up to the provider call (lines 110-165): a cache hit
\* returns, a reached cap raises, else the counter is raised and chat_json
\* is called.
LlmCallEnter(s, w, stage, attempt) ==
    LET c == s.ctx[w]
        key == stable_id(stage, llmConfig.provider, c.m)
        cached == s.cache[key]
    IN  IF cached # NULL
        THEN LlmCallReturn(s, w, stage, [raised |-> "none", output |-> <<cached[1].response>>])
        ELSE IF ~can_consume(s.by_date, llmToday, llmConfig.max_calls_per_day)
        THEN LlmCallFailed(s, w, stage, attempt, "LLM_CAP_EXCEEDED")
        ELSE [s EXCEPT !.by_date = consume(s.by_date, llmToday),
                       !.calls[llmToday] = @ + 1,
                       !.pc[w] = "provider",
                       !.ctx[w].stage = stage,
                       !.ctx[w].attempt = attempt,
                       !.ctx[w].calls = @ + 1]

\* LLMAdapter._call from the return of chat_json (lines 166-200).
LlmCallResume(s, w, outcome) ==
    LET c == s.ctx[w]
        key == stable_id(c.stage, llmConfig.provider, c.m)
        put == LlmCachePut(s.cache, key, outcome.output[1], llmToday)
        s1 == [s EXCEPT !.cache = put.cache,
                        !.put = [key |-> key, response |-> outcome.output,
                                 before |-> s.cache[key], raised |-> put.raised,
                                 n |-> 1 - s.put.n]]
    IN  IF outcome.kind # "ok"
        THEN LlmCallFailed(s, w, c.stage, c.attempt, outcome.kind)
        ELSE IF put.raised # "none"
        THEN LlmCallReturn(s1, w, c.stage, [raised |-> put.raised, output |-> NULL])
        ELSE LlmCallReturn(s1, w, c.stage, [raised |-> "none", output |-> outcome.output])

LlmApply(s) ==
    /\ llmCache' = s.cache
    /\ dailyCalls' = s.by_date
    /\ providerCalls' = s.calls
    /\ llmClassification' = s.cls
    /\ llmExtraction' = s.ex
    /\ wpc' = s.pc
    /\ wctx' = s.ctx
    /\ lastLlmPut' = s.put
    /\ lastP4' = s.last
    /\ UNCHANGED <<llmConfig, llmDet, llmToday, notLlm>>

\* ClassifyExtractRunner.run over a normalized directory that holds message
\* m (lines 179-222), up to the first provider call or to the end.
P4Run(w, m) ==
    /\ wpc[w] = "idle"
    /\ LET det == llmDet[m]
           gate_cls == should_call_llm_classify(llmConfig, det)
           s0 == [LlmWorld EXCEPT
                     !.ctx[w] = [NoCtx EXCEPT
                                    !.m = m,
                                    !.gate = gate_cls.reason,
                                    !.classification = <<DeterministicClassification(det)>>]]
       IN  LlmApply(IF gate_cls.allowed THEN LlmCallEnter(s0, w, "classify", 1)
                    ELSE P4Extract(s0, w))

\* chat_json returns to worker w, and run goes on up to the next provider
\* call or to the end.
ProviderReturn(w, outcome) ==
    /\ wpc[w] = "provider"
    /\ LlmApply(LlmCallResume(LlmWorld, w, outcome))

\* Midnight (UTC) passes.
NextDay ==
    /\ llmToday < MaxDay
    /\ llmToday' = llmToday + 1
    /\ UNCHANGED <<llmConfig, llmDet, dailyCalls, providerCalls, llmCache,
                   llmClassification, llmExtraction, wpc, wctx, lastLlmPut, lastP4,
                   notLlm>>

LlmIdle ==
    /\ llmToday = 1
    /\ dailyCalls = [d \in LlmDays |-> 0]
    /\ providerCalls = [d \in LlmDays |-> 0]
    /\ llmCache = [k \in LlmCacheKeys |-> NULL]
    /\ llmClassification = [m \in LlmMessages |-> NULL]
    /\ llmExtraction = [m \in LlmMessages |-> NULL]
    /\ wpc = [w \in LlmWorkers |-> "idle"]
    /\ wctx = [w \in LlmWorkers |-> NoCtx]
    /\ lastLlmPut = NoLlmPut
    /\ lastP4 = NoP4

NoLlmInput ==
    /\ llmConfig = [determinism_mode |-> TRUE, disable_llm |-> FALSE, enabled |-> FALSE,
                    provider |-> "disabled",
                    min_confidence_for_auto |-> MinConfidenceForAuto,
                    max_calls_per_day |-> 0]
    /\ llmDet = [m \in LlmMessages |->
                    [confidence |-> 90, risk_flags |-> {}, entities |-> {}]]
    /\ LlmIdle

InitLlm ==
    /\ llmConfig \in LlmConfigs
    /\ llmDet \in [LlmMessages -> DetInputs]
    /\ LlmIdle

NextLlm ==
    \/ \E w \in LlmWorkers, m \in LlmMessages : P4Run(w, m)
    \/ \E w \in LlmWorkers :
           \E outcome \in ProviderOutcomes(wctx[w].stage) : ProviderReturn(w, outcome)
    \/ NextDay

\* The conditions under which an LLM stage may run for message m.
LlmMayRun(m) ==
    /\ ~llmConfig.determinism_mode
    /\ llmConfig.enabled
    /\ ~llmConfig.disable_llm
    /\ llmDet[m].risk_flags = {}
    /\ llmDet[m].confidence < llmConfig.min_confidence_for_auto

\* C24: a provider call is made for a message only when determinism mode is
\* off, the LLM is enabled, disable_llm is off, the deterministic classifier
\* produced no risk flags and its primary_intent.confidence is below
\* min_confidence_for_auto; otherwise the run of the message makes none.
C24_ProviderCallOnlyWhenGated ==
    /\ \A w \in LlmWorkers : wpc[w] = "provider" => LlmMayRun(wctx[w].m)
    /\ \A w \in LlmWorkers : wctx[w].calls > 0 => LlmMayRun(wctx[w].m)
    /\ lastP4.calls > 0 => LlmMayRun(lastP4.m)

C24_Witness ==
    \E w \in LlmWorkers : wpc[w] = "provider" /\ wctx[w].stage = "classify"

\* C25: when the mapping of the LLM classification output fails, the
\* classification written for the message is the fail-closed one
\* (INTENT_GENERAL_INQUIRY at confidence 0.0 with the deterministic risk
\* flags) and llm.extract is not called.
C25_MappingFailureFailsClosed ==
    lastP4.caught_classify = "LLM_MAPPING_ERROR" =>
        /\ llmClassification[lastP4.m] # NULL
        /\ llmClassification[lastP4.m][1].primary_intent =
               [label |-> "INTENT_GENERAL_INQUIRY", confidence |-> 0]
        /\ llmClassification[lastP4.m][1].risk_flags = llmDet[lastP4.m].risk_flags
        /\ llmClassification[lastP4.m][1].model_info = NULL
        /\ ~lastP4.extract_called
        /\ llmExtraction[lastP4.m][1].model_info = NULL

C25_Witness == lastP4.caught_classify = "LLM_MAPPING_ERROR"

\* C26: on no day are more provider calls made than max_calls_per_day, and
\* while the counter of the day stands at the cap no step reaches the
\* provider: the call that misses the cache raises instead.
C26_ProviderCallsCapped ==
    /\ [](\A d \in LlmDays : providerCalls[d] <= llmConfig.max_calls_per_day)
    /\ [][dailyCalls[llmToday] >= llmConfig.max_calls_per_day
              => providerCalls' = providerCalls]_vars

C26_Witness ==
    /\ llmConfig.max_calls_per_day > 0
    /\ providerCalls[llmToday] = llmConfig.max_calls_per_day
    /\ lastP4.caught_classify = "LLM_CAP_EXCEEDED"

\* C27: a stored cache entry never changes; a put under a key that holds a
\* different response raises, a put of the response the key holds returns.
C27_CacheImmutable ==
    /\ [][\A k \in LlmCacheKeys : llmCache[k] # NULL => llmCache'[k] = llmCache[k]]_vars
    /\ [](lastLlmPut.before # NULL =>
              (lastLlmPut.raised = "IMMUTABILITY_VIOLATION"
                   <=> lastLlmPut.before[1].response # lastLlmPut.response[1]))
    /\ [](lastLlmPut.before = NULL => lastLlmPut.raised = "none")

C27_Witness ==
    /\ lastLlmPut.before # NULL
    /\ lastLlmPut.raised = "IMMUTABILITY_VIOLATION"
    /\ llmCache[lastLlmPut.key] = lastLlmPut.before

\* C28: no run catches an immutability violation and goes on: the error of
\* FileLLMCache.put is never among the exceptions the stage has handled.
C28_IntegrityErrorsSurface ==
    /\ lastP4.caught_classify # "IMMUTABILITY_VIOLATION"
    /\ lastP4.caught_extract # "IMMUTABILITY_VIOLATION"

(***************************************************************************)
(* Audit verification: ieim/audit/verify.py, cmd_audit_verify of ieimctl.py *)
(***************************************************************************)

MaxVerifyLen == 3

\* The file is audit/m1/r1.jsonl: path.parent.name and path.stem.
ExpectedMessageId == "m1"
ExpectedRunId == "r1"

VerifyStages == {"IDENTITY", "ROUTE"}

\* actor_type of the events the stages and the HITL service build.
ActorTypes == {"SYSTEM", "HUMAN"}

\* build_audit_event with the identity fields the verifier looks at.
build_full_audit_event(stage, actor_type) ==
    [message_id |-> ExpectedMessageId, run_id |-> ExpectedRunId, stage |-> stage,
     actor_type |-> actor_type, prev_event_hash |-> NULL, event_hash |-> ZeroHash]

\* schemas/audit_event.schema.json as the data model describes the event:
\* actor_type is one of SYSTEM, HUMAN, JOB; the other fields are strings
\* (hashes are strings or null).
AuditSchemaValid(event) == event.actor_type \in {"SYSTEM", "HUMAN", "JOB"}

\* Values an edit can put into a field of line i.
EditValues(file, i, field) ==
    CASE field = "message_id" -> {"m1", "m2"}
      [] field = "run_id" -> {"r1", "r2"}
      [] field = "stage" -> {"IDENTITY", "ROUTE", "TAMPERED"}
      [] field = "actor_type" -> {"SYSTEM", "HUMAN", "JOB", "ROBOT"}
      [] field = "prev_event_hash" ->
             {NULL, ZeroHash} \cup {file[j].event_hash : j \in 1..Len(file)}
      [] OTHER -> {ZeroHash} \cup {file[j].event_hash : j \in 1..Len(file)}

EventFields ==
    {"message_id", "run_id", "stage", "actor_type", "prev_event_hash", "event_hash"}

\* verify.py _event_hash that takes the stored hash for granted.
VerifierEventHash_Stored(event) == event.event_hash

\* verify.py _event_hash
VerifierEventHash(event) == Sha256(CanonicalEventNoHash(event))

\* The errors verify_audit_logs appends for line idx (lines 60-95), given
\* the prev_hash it carries.
LineErrors(event, idx, prev_hash) ==
    IF ~AuditSchemaValid(event) THEN {<<idx, "schema validation failed">>}
    ELSE (IF event.message_id # ExpectedMessageId
          THEN {<<idx, "message_id mismatch">>} ELSE {})
         \cup (IF event.run_id # ExpectedRunId
               THEN {<<idx, "run_id mismatch">>} ELSE {})
         \cup (IF event.prev_event_hash # prev_hash
               THEN {<<idx, "prev_event_hash mismatch">>} ELSE {})
         \cup (IF event.event_hash # VerifierEventHash(event)
               THEN {<<idx, "event_hash mismatch">>} ELSE {})

\* The loop of lines 60-95 from line idx on.
RECURSIVE VerifyLines(_, _, _)
VerifyLines(file, idx, prev_hash) ==
    IF idx > Len(file) THEN {}
    ELSE LineErrors(file[idx], idx, prev_hash)
         \cup VerifyLines(file, idx + 1,
                          IF AuditSchemaValid(file[idx])
                          THEN file[idx].event_hash ELSE prev_hash)

\* verify_audit_logs over an audit directory that holds this file, if the
\* file exists.
verify_audit_logs(file) ==
    [files_checked |-> IF Len(file) = 0 THEN 0 ELSE 1,
     errors |-> VerifyLines(file, 1, NULL)]

\* cmd_audit_verify: the exit code.
cmd_audit_verify(file) ==
    LET result == verify_audit_logs(file)
    IN  IF result.files_checked = 0 THEN 10
        ELSE IF result.errors # {} THEN 60
        ELSE 0

NoTamper == [line |-> 0, field |-> "none"]

NoVerification == [ran |-> FALSE, errors |-> {}, rc |-> 0]

\* FileAuditLogger.append of a newly built event.
LoggerAppend(stage, actor_type) ==
    /\ Len(verifyLog) < MaxVerifyLen
    /\ tamper = NoTamper
    /\ verifyLog' = Append(verifyLog,
                           SealEvent(build_full_audit_event(stage, actor_type),
                                     ReadLastHash(verifyLog)))
    /\ verification' = NoVerification
    /\ UNCHANGED <<tamper, notVerify>>

\* Someone edits one field of one line of the file and leaves the hashes as
\* they are.
EditField(i, field, value) ==
    /\ tamper = NoTamper
    /\ i \in 1..Len(verifyLog)
    /\ verifyLog[i][field] # value
    /\ verifyLog' = [verifyLog EXCEPT ![i][field] = value]
    /\ tamper' = [line |-> i, field |-> field]
    /\ verification' = NoVerification
    /\ UNCHANGED notVerify

\* ieimctl audit verify
RunVerify ==
    /\ ~verification.ran
    /\ verification' = [ran |-> TRUE, errors |-> verify_audit_logs(verifyLog).errors,
                        rc |-> cmd_audit_verify(verifyLog)]
    /\ UNCHANGED <<verifyLog, tamper, notVerify>>

InitVerify ==
    /\ verifyLog = <<>>
    /\ tamper = NoTamper
    /\ verification = NoVerification

NextVerify ==
    \/ \E stage \in VerifyStages, actor_type \in ActorTypes : LoggerAppend(stage, actor_type)
    \/ \E i \in 1..MaxVerifyLen, field \in EventFields :
           \E value \in EditValues(verifyLog, i, field) : EditField(i, field, value)
    \/ RunVerify

\* C29 as stated: after an edit of any field of any event, the verifier
\* reports an event_hash mismatch on that line and the command exits non-zero.
C29_AnyEditHashMismatch ==
    (verification.ran /\ tamper.line # 0) =>
        /\ <<tamper.line, "event_hash mismatch">> \in verification.errors
        /\ verification.rc # 0

\* C29, amended: after an edit of any field of any event the command exits
\* non-zero with an error on that line: an event_hash mismatch when the
\* edited event still passes the schema, a schema validation failure when
\* it does not.
C29_EditReportedOnLine ==
    (verification.ran /\ tamper.line # 0) =>
        /\ verification.rc # 0
        /\ IF AuditSchemaValid(verifyLog[tamper.line])
           THEN <<tamper.line, "event_hash mismatch">> \in verification.errors
           ELSE /\ <<tamper.line, "schema validation failed">> \in verification.errors
                /\ <<tamper.line, "event_hash mismatch">> \notin verification.errors

C29_Witness ==
    /\ verification.ran
    /\ tamper.line = Len(verifyLog)
    /\ tamper.field = "stage"
    /\ Len(verifyLog) > 1
    /\ verification.errors = {<<tamper.line, "event_hash mismatch">>}

\* An untouched file the logger wrote passes.
VerifyCleanPasses ==
    (verification.ran /\ tamper.line = 0 /\ Len(verifyLog) > 0) => verification.rc = 0

(***************************************************************************)
(* Reprocess job: ieim/pipeline/p6_reprocess.py                             *)
(***************************************************************************)

MaxReprocessRuns == 2

ReprocessConfigs == {1, 2}

\* Bytes of the raw MIME file at ingest, and what the file can hold later.
RecordedRaw == 1
RawFileStates == {NULL, <<1>>, <<2>>}

\* Text extracted at ingest, and what the text file can hold later.
RecordedText == <<"H", "i">>
TextFileStates == {NULL, <<RecordedText>>, <<Lower(RecordedText)>>}

\* The normalized message as ingest wrote it.
NormalizedRecord ==
    [raw_mime_uri |-> "raw_store/mime", raw_mime_sha256 |-> Sha256(RecordedRaw),
     run_id |-> "r1"]

\* Attachment artifacts as the attachment stage writes them: the text uri
\* and its hash are set together or not at all.
TextArtifact ==
    [av_status |-> "CLEAN", extracted_text_uri |-> <<"attachment_text">>,
     extracted_text_sha256 |-> <<Sha256(RecordedText)>>]

PlainArtifact ==
    [av_status |-> "FAILED", extracted_text_uri |-> NULL, extracted_text_sha256 |-> NULL]

AttachmentLists == {<<>>, <<TextArtifact>>, <<PlainArtifact>>, <<PlainArtifact, TextArtifact>>}

\* _verify_raw_mime: NULL, or the error.
verify_raw_mime(file) ==
    IF file = NULL THEN <<"missing raw mime file">>
    ELSE IF Sha256(file[1]) # NormalizedRecord.raw_mime_sha256
         THEN <<"raw mime sha256 mismatch">>
         ELSE NULL

\* _verify_attachment_texts: the list of errors.
RECURSIVE verify_attachment_texts(_, _)
verify_attachment_texts(attachments, file) ==
    IF attachments = <<>> THEN <<>>
    ELSE LET artifact == Head(attachments)
             rest == verify_attachment_texts(Tail(attachments), file)
         IN  IF artifact.extracted_text_uri = NULL THEN rest
             ELSE IF artifact.extracted_text_sha256 = NULL THEN rest
             ELSE IF file = NULL THEN <<"missing extracted text file">> \o rest
             ELSE IF <<Sha256(file[1])>> # artifact.extracted_text_sha256
                  THEN <<"sha256 mismatch">> \o rest
                  ELSE rest

\* _load_attachment_texts_c14n: the lower-cased texts of the CLEAN artifacts
\* that have one; read after the verification passed, so the file exists.
RECURSIVE load_attachment_texts_c14n(_, _)
load_attachment_texts_c14n(attachments, file) ==
    IF attachments = <<>> THEN <<>>
    ELSE LET artifact == Head(attachments)
             rest == load_attachment_texts_c14n(Tail(attachments), file)
         IN  IF artifact.av_status # "CLEAN" \/ artifact.extracted_text_uri = NULL
             THEN rest
             ELSE <<Lower(file[1])>> \o rest

\* The stages are deterministic: their decision_hash is a function of the
\* message, the attachment texts and the configuration.
IdentityDecisionHash(cfg, texts) == Sha256(<<"IDENTITY", cfg, texts>>)
ClassifyDecisionHash(cfg, mode) == Sha256(<<"CLASSIFY", cfg, mode>>)
RouteDecisionHash(cfg, idh, clsh) == Sha256(<<"ROUTE", cfg, idh, clsh>>)

ComparedStages == {"IDENTITY", "CLASSIFY", "ROUTE"}

\* Decision hashes of a run of the pipeline with configuration cfg whose
\* classification came from the deterministic rules or from the LLM.
PipelineDecisionHashes(cfg, mode, texts) ==
    LET idh == IdentityDecisionHash(cfg, texts)
        clsh == ClassifyDecisionHash(cfg, mode)
    IN  [s \in ComparedStages |->
            CASE s = "IDENTITY" -> idh
              [] s = "CLASSIFY" -> clsh
              [] OTHER -> RouteDecisionHash(cfg, idh, clsh)]

\* --history-dir: absent, or the outputs of the historical run of the
\* message, which read the texts as ingest extracted them.
Histories(attachments) ==
    {NULL} \cup
    {<<PipelineDecisionHashes(cfg, mode,
           load_attachment_texts_c14n(attachments, <<RecordedText>>))>> :
        cfg \in ReprocessConfigs, mode \in {"rules", "llm"}}

RunDirFiles ==
    {"normalized", "identity", "classification", "extraction", "routing", "report"}

EmptyRunDir == [f \in RunDirFiles |-> NULL]

\* _write_bytes_immutably
write_bytes_immutably(files, path, data) ==
    IF files[path] # NULL /\ files[path] # <<data>>
    THEN [raised |-> TRUE, files |-> files]
    ELSE [raised |-> FALSE, files |-> [files EXCEPT ![path] = <<data>>]]

\* run, lines 444-467: the comparison and the status it gives.
Comparison(hist, now) ==
    [s \in ComparedStages |->
        [historical |-> hist[s], reprocess |-> now[s], match |-> hist[s] = now[s]]]

ComparisonStatus(comparison) ==
    IF \A s \in ComparedStages : comparison[s].match THEN "OK" ELSE "MISMATCH"

NoReprocess ==
    [ran |-> FALSE, raw |-> NULL, text |-> NULL, config |-> 1, history |-> NULL,
     fresh |-> TRUE, steps |-> <<>>, outcome |-> "none", report |-> NULL]

\* ReprocessRunner.run as a whole; history is the --history-dir argument.
\* An immutability violation ends the run where it is raised.
ReprocessRun(history) ==
    LET raw_mime_error == verify_raw_mime(rpRawFile)
        attachment_text_errors == verify_attachment_texts(rpAttachments, rpTextFile)
        inputs == [NoReprocess EXCEPT !.ran = TRUE, !.raw = rpRawFile,
                      !.text = rpTextFile, !.config = rpConfig,
                      !.history = history, !.fresh = (rpRunDir = EmptyRunDir)]
        verified == <<"VERIFY_RAW_MIME", "VERIFY_ATTACHMENT_TEXTS">>
        w_nm == write_bytes_immutably(rpRunDir, "normalized", NormalizedRecord)
        Raise(files, audit, steps) ==
            /\ rpRunDir' = files
            /\ rpAuditLog' = audit
            /\ rpLast' = [inputs EXCEPT !.steps = steps, !.outcome = "RuntimeError"]
        Return(files, audit, steps, report) ==
            /\ rpRunDir' = files
            /\ rpAuditLog' = audit
            /\ rpLast' = [inputs EXCEPT !.steps = steps, !.outcome = report.status,
                                        !.report = <<report>>]
    IN
    /\ rpRuns < MaxReprocessRuns
    /\ rpRuns' = rpRuns + 1
    /\ UNCHANGED <<rpRawFile, rpTextFile, rpAttachments, rpConfig, notReprocess>>
    /\ IF w_nm.raised THEN Raise(w_nm.files, rpAuditLog, verified)
       ELSE IF raw_mime_error # NULL \/ attachment_text_errors # <<>>
       THEN \* lines 196-236
            LET report == [status |-> "REVIEW_REQUIRED",
                           raw_mime_error |-> raw_mime_error,
                           attachment_text_errors |-> attachment_text_errors,
                           decision_hash_comparison |-> NULL]
                w_rep == write_bytes_immutably(w_nm.files, "report", report)
            IN  IF w_rep.raised THEN Raise(w_rep.files, rpAuditLog, verified)
                ELSE Return(w_rep.files, Append(rpAuditLog, "REPROCESS"), verified, report)
       ELSE \* lines 238-508
            LET texts == load_attachment_texts_c14n(rpAttachments, rpTextFile)
                now == PipelineDecisionHashes(rpConfig, "rules", texts)
                w_id == write_bytes_immutably(w_nm.files, "identity", now["IDENTITY"])
                w_cls == write_bytes_immutably(w_id.files, "classification", now["CLASSIFY"])
                w_ex == write_bytes_immutably(w_cls.files, "extraction", <<"EXTRACT", rpConfig>>)
                w_rt == write_bytes_immutably(w_ex.files, "routing", now["ROUTE"])
                comparison == IF history = NULL THEN NULL
                              ELSE <<Comparison(history[1], now)>>
                report == [status |-> IF comparison = NULL THEN "OK"
                                      ELSE ComparisonStatus(comparison[1]),
                           raw_mime_error |-> raw_mime_error,
                           attachment_text_errors |-> attachment_text_errors,
                           decision_hash_comparison |-> comparison]
                w_rep == write_bytes_immutably(w_rt.files, "report", report)
                a_id == Append(rpAuditLog, "IDENTITY")
                a_ex == a_id \o <<"CLASSIFY", "EXTRACT">>
                a_rt == Append(a_ex, "ROUTE")
                s_id == Append(verified, "IDENTITY")
                s_ex == s_id \o <<"CLASSIFY", "EXTRACT">>
                s_rt == Append(s_ex, "ROUTE")
            IN  IF w_id.raised THEN Raise(w_id.files, rpAuditLog, s_id)
                ELSE IF w_cls.raised THEN Raise(w_cls.files, a_id, s_ex)
                ELSE IF w_ex.raised THEN Raise(w_ex.files, a_id, s_ex)
                ELSE IF w_rt.raised THEN Raise(w_rt.files, a_ex, s_rt)
                ELSE IF w_rep.raised THEN Raise(w_rep.files, a_rt, s_rt)
                ELSE Return(w_rep.files, Append(a_rt, "REPROCESS"), s_rt, report)

\* The stored raw MIME file is changed or removed.
ChangeRawFile(file) ==
    /\ file # rpRawFile
    /\ rpRawFile' = file
    /\ UNCHANGED <<rpTextFile, rpAttachments, rpConfig, rpRunDir, rpAuditLog, rpRuns,
                   rpLast, notReprocess>>

\* The stored attachment text is changed or removed.
ChangeTextFile(file) ==
    /\ file # rpTextFile
    /\ rpTextFile' = file
    /\ UNCHANGED <<rpRawFile, rpAttachments, rpConfig, rpRunDir, rpAuditLog, rpRuns,
                   rpLast, notReprocess>>

\* The configuration file is replaced by another version.
ChangeConfig(cfg) ==
    /\ cfg # rpConfig
    /\ rpConfig' = cfg
    /\ UNCHANGED <<rpRawFile, rpTextFile, rpAttachments, rpRunDir, rpAuditLog, rpRuns,
                   rpLast, notReprocess>>

NoReprocessInput ==
    /\ rpRawFile = <<RecordedRaw>>
    /\ rpTextFile = NULL
    /\ rpAttachments = <<>>
    /\ rpConfig = 1
    /\ rpRunDir = EmptyRunDir
    /\ rpAuditLog = <<>>
    /\ rpRuns = 0
    /\ rpLast = NoReprocess

\* After ingest: the files hold what the records say; the message has any
\* of the attachment lists.
InitReprocessJob ==
    /\ rpRawFile = <<RecordedRaw>>
    /\ rpAttachments \in AttachmentLists
    /\ rpTextFile = IF \E i \in 1..Len(rpAttachments) :
                           rpAttachments[i].extracted_text_uri # NULL
                    THEN <<RecordedText>> ELSE NULL
    /\ rpConfig = 1
    /\ rpRunDir = EmptyRunDir
    /\ rpAuditLog = <<>>
    /\ rpRuns = 0
    /\ rpLast = NoReprocess

NextReprocess ==
    \/ \E history \in Histories(rpAttachments) : ReprocessRun(history)
    \/ \E file \in RawFileStates : ChangeRawFile(file)
    \/ \E file \in TextFileStates : ChangeTextFile(file)
    \/ \E cfg \in ReprocessConfigs : ChangeConfig(cfg)

\* What the last run found when it verified the stored artifacts.
LastVerificationFailed ==
    \/ verify_raw_mime(rpLast.raw) # NULL
    \/ verify_attachment_texts(rpAttachments, rpLast.text) # <<>>

LastStages == {rpLast.steps[i] : i \in 3..Len(rpLast.steps)}

LastHashesMatch ==
    \/ rpLast.history = NULL
    \/ \A s \in ComparedStages :
           rpLast.history[1][s] =
               PipelineDecisionHashes(rpLast.config, "rules",
                   load_attachment_texts_c14n(rpAttachments, rpLast.text))[s]

\* C30: a run of the reprocess job verifies the raw MIME and attachment-text
\* hashes before any stage; on any mismatch it ends with status
\* REVIEW_REQUIRED and runs no stage; otherwise it reports OK exactly when
\* every compared stage decision_hash equals the historical one, and
\* MISMATCH otherwise.
C30_ReprocessStatus ==
    rpLast.ran =>
        /\ Len(rpLast.steps) >= 2
        /\ rpLast.steps[1] = "VERIFY_RAW_MIME"
        /\ rpLast.steps[2] = "VERIFY_ATTACHMENT_TEXTS"
        /\ IF LastVerificationFailed
           THEN rpLast.outcome = "REVIEW_REQUIRED" /\ LastStages = {}
           ELSE rpLast.outcome = (IF LastHashesMatch THEN "OK" ELSE "MISMATCH")

\* The same statement for runs into a run directory that does not exist yet.
ReprocessStatusFreshRunDir ==
    rpLast.fresh => C30_ReprocessStatus

\* Whatever the run directory holds, a failed verification runs no stage
\* and never reports OK or MISMATCH.
FailedVerificationRunsNoStage ==
    (rpLast.ran /\ LastVerificationFailed) =>
        /\ LastStages = {}
        /\ rpLast.outcome \in {"REVIEW_REQUIRED", "RuntimeError"}

(***************************************************************************)
(* Pipeline orchestration: cmd_demo_run of ieimctl.py running the stage     *)
(* runners p3, p4, p5_routing, p5_case_adapter and p7_hitl with one audit   *)
(* logger, step by step.                                                    *)
(*                                                                         *)
(* The runners are taken at their call contract: resolver.resolve hands    *)
(* the identity runner the three values it unpacks at p3 line 84 (result,  *)
(* request_info, evidence).  resolver.py itself returns two, which would   *)
(* end every identity run with a ValueError before anything is written.    *)
(***************************************************************************)

\* sorted(normalized_dir.glob("*.json")): every runner walks the messages in
\* this order.
PipelineMessages == {1, 2}

PipelineStages == <<"IDENTITY", "CLASSIFY", "EXTRACT", "ROUTE", "CASE", "HITL">>

StageSet == {PipelineStages[i] : i \in 1..Len(PipelineStages)}

Step(stage, kind) == [stage |-> stage, kind |-> kind]

\* cmd_demo_run with the HITL runner called before the case runner.
DemoRunners_HitlBeforeCase == <<"identity", "classify_extract", "routing", "hitl", "case">>

\* cmd_demo_run, lines 356-412: the runners in call order.
DemoRunners == <<"identity", "classify_extract", "routing", "case", "hitl">>

\* A routing runner that appends its audit event before tmp.replace(out_path).
RunnerSteps_AuditBeforeReplace(runner) ==
    CASE runner = "identity" ->
             <<Step("IDENTITY", "start"), Step("IDENTITY", "tmp"),
               Step("IDENTITY", "replace"), Step("IDENTITY", "audit")>>
      [] runner = "classify_extract" ->
             <<Step("CLASSIFY", "start"), Step("EXTRACT", "start"),
               Step("CLASSIFY", "tmp"), Step("CLASSIFY", "replace"),
               Step("EXTRACT", "tmp"), Step("EXTRACT", "replace"),
               Step("CLASSIFY", "audit"), Step("EXTRACT", "audit")>>
      [] runner = "routing" ->
             <<Step("ROUTE", "start"), Step("ROUTE", "tmp"),
               Step("ROUTE", "audit"), Step("ROUTE", "replace")>>
      [] runner = "case" ->
             <<Step("CASE", "start"), Step("CASE", "tmp"),
               Step("CASE", "replace"), Step("CASE", "audit")>>
      [] OTHER ->
             <<Step("HITL", "start"), Step("HITL", "tmp"),
               Step("HITL", "replace"), Step("HITL", "audit")>>

\* The body of each runner's loop over the messages, in statement order:
\*   start   - the stage's computation is called (resolve, classify, extract,
\*             evaluate_routing, stage.apply, build_review_item)
\*   tmp     - tmp.write_bytes(out_bytes)
\*   replace - tmp.replace(out_path)
\*   audit   - audit_logger.append(event)
RunnerSteps(runner) ==
    CASE runner = "identity" ->
             \* p3_identity_resolution.py lines 84-145
             <<Step("IDENTITY", "start"), Step("IDENTITY", "tmp"),
               Step("IDENTITY", "replace"), Step("IDENTITY", "audit")>>
      [] runner = "classify_extract" ->
             \* p4_classify_extract.py lines 185-361
             <<Step("CLASSIFY", "start"), Step("EXTRACT", "start"),
               Step("CLASSIFY", "tmp"), Step("CLASSIFY", "replace"),
               Step("EXTRACT", "tmp"), Step("EXTRACT", "replace"),
               Step("CLASSIFY", "audit"), Step("EXTRACT", "audit")>>
      [] runner = "routing" ->
             \* p5_routing.py lines 57-123
             <<Step("ROUTE", "start"), Step("ROUTE", "tmp"),
               Step("ROUTE", "replace"), Step("ROUTE", "audit")>>
      [] runner = "case" ->
             \* p5_case_adapter.py lines 65-182
             <<Step("CASE", "start"), Step("CASE", "tmp"),
               Step("CASE", "replace"), Step("CASE", "audit")>>
      [] OTHER ->
             \* p7_hitl.py lines 62-107 and FileReviewStore.write
             <<Step("HITL", "start"), Step("HITL", "tmp"),
               Step("HITL", "replace"), Step("HITL", "audit")>>

\* The artifacts a stage reads with read_bytes before it computes; a missing
\* one raises FileNotFoundError.
StageReads(stage) ==
    CASE stage = "ROUTE" -> {"IDENTITY", "CLASSIFY"}
      [] stage = "CASE" -> {"ROUTE"}
      [] stage = "HITL" -> {"ROUTE", "IDENTITY", "CLASSIFY", "EXTRACT"}
      [] OTHER -> {}

\* ArtifactRef.uri of a stage's output: the file name, <message_id>.<stage>.json.
OutputUri(m, stage) == <<m, stage>>

PcStart == [status |-> "running", runner |-> 1, msg |-> 1, step |-> 1]

CurrentRunner == DemoRunners[plPc.runner]

CurrentStep == RunnerSteps(CurrentRunner)[plPc.step]

\* The next statement: the next step of the loop body, else the next
\* message, else the next runner, else the end of the run.
NextMessage(pc) ==
    IF pc.msg + 1 \in PipelineMessages
    THEN [pc EXCEPT !.msg = pc.msg + 1, !.step = 1]
    ELSE IF pc.runner < Len(DemoRunners)
         THEN [pc EXCEPT !.runner = pc.runner + 1, !.msg = 1, !.step = 1]
         ELSE [pc EXCEPT !.status = "done"]

Advance(pc) ==
    IF pc.step < Len(RunnerSteps(DemoRunners[pc.runner]))
    THEN [pc EXCEPT !.step = pc.step + 1]
    ELSE NextMessage(pc)

Record(m, step) == [plTrace EXCEPT ![m] = Append(@, step)]

\* The stage reads its inputs and computes; the except clause of
\* cmd_demo_run ends the run when an input is missing.
StageStart ==
    /\ plPc.status = "running"
    /\ CurrentStep.kind = "start"
    /\ ~(CurrentRunner = "hitl" /\ ~plNeedsReview[plPc.msg])
    /\ IF \A s \in StageReads(CurrentStep.stage) : plFiles[plPc.msg][s] = "file"
       THEN /\ plPc' = Advance(plPc)
            /\ plTrace' = Record(plPc.msg, Step(CurrentStep.stage, "start"))
       ELSE /\ plPc' = [plPc EXCEPT !.status = "failed"]
            /\ UNCHANGED plTrace
    /\ UNCHANGED <<plNeedsReview, plFiles, plAudit, notPipeline>>

\* HitlReviewItemsRunner.run, lines 66-69: no review item for this message.
HitlSkip ==
    /\ plPc.status = "running"
    /\ CurrentRunner = "hitl"
    /\ plPc.step = 1
    /\ ~plNeedsReview[plPc.msg]
    /\ IF plFiles[plPc.msg]["ROUTE"] = "file"
       THEN plPc' = NextMessage(plPc)
       ELSE plPc' = [plPc EXCEPT !.status = "failed"]
    /\ UNCHANGED <<plNeedsReview, plFiles, plAudit, plTrace, notPipeline>>

\* tmp.write_bytes(out_bytes)
WriteTmp ==
    /\ plPc.status = "running"
    /\ CurrentStep.kind = "tmp"
    /\ plFiles' = [plFiles EXCEPT ![plPc.msg][CurrentStep.stage] =
                      IF @ = "none" THEN "tmp" ELSE @]
    /\ plPc' = Advance(plPc)
    /\ UNCHANGED <<plNeedsReview, plAudit, plTrace, notPipeline>>

\* tmp.replace(out_path)
ReplaceTmp ==
    /\ plPc.status = "running"
    /\ CurrentStep.kind = "replace"
    /\ plFiles' = [plFiles EXCEPT ![plPc.msg][CurrentStep.stage] = "file"]
    /\ plTrace' = Record(plPc.msg, Step(CurrentStep.stage, "artifact"))
    /\ plPc' = Advance(plPc)
    /\ UNCHANGED <<plNeedsReview, plAudit, notPipeline>>

\* audit_logger.append(event)
PipelineAudit ==
    /\ plPc.status = "running"
    /\ CurrentStep.kind = "audit"
    /\ LET m == plPc.msg
           event == [stage |-> CurrentStep.stage,
                     output_ref |-> OutputUri(m, CurrentStep.stage),
                     prev_event_hash |-> NULL, event_hash |-> ZeroHash]
       IN  /\ plAudit' = [plAudit EXCEPT ![m] =
                             Append(@, SealEvent(event, ReadLastHash(@)))]
           /\ plTrace' = Record(m, Step(CurrentStep.stage, "audit"))
    /\ plPc' = Advance(plPc)
    /\ UNCHANGED <<plNeedsReview, plFiles, notPipeline>>

\* The process is killed between two statements.
PipelineKill ==
    /\ plPc.status = "running"
    /\ plPc' = [plPc EXCEPT !.status = "killed"]
    /\ UNCHANGED <<plNeedsReview, plFiles, plAudit, plTrace, notPipeline>>

NoPipelineInput ==
    /\ plNeedsReview = [m \in PipelineMessages |-> FALSE]
    /\ plPc = [PcStart EXCEPT !.status = "idle"]
    /\ plFiles = [m \in PipelineMessages |-> [s \in StageSet |-> "none"]]
    /\ plAudit = [m \in PipelineMessages |-> <<>>]
    /\ plTrace = [m \in PipelineMessages |-> <<>>]

\* A fresh run directory (_next_demo_run_dir) and any routing outcome.
InitPipelineRun ==
    /\ plNeedsReview \in [PipelineMessages -> BOOLEAN]
    /\ plPc = PcStart
    /\ plFiles = [m \in PipelineMessages |-> [s \in StageSet |-> "none"]]
    /\ plAudit = [m \in PipelineMessages |-> <<>>]
    /\ plTrace = [m \in PipelineMessages |-> <<>>]

NextPipeline ==
    \/ StageStart
    \/ HitlSkip
    \/ WriteTmp
    \/ ReplaceTmp
    \/ PipelineAudit
    \/ PipelineKill

\* Position of a step in the trace of message m, 0 when it has not happened.
Pos(m, stage, kind) ==
    IF \E i \in 1..Len(plTrace[m]) : plTrace[m][i] = Step(stage, kind)
    THEN CHOOSE i \in 1..Len(plTrace[m]) : plTrace[m][i] = Step(stage, kind)
    ELSE 0

\* If the second step has happened, the first happened before it.
Before(m, s1, k1, s2, k2) ==
    Pos(m, s2, k2) # 0 => (Pos(m, s1, k1) # 0 /\ Pos(m, s1, k1) < Pos(m, s2, k2))

StagePositions(m, stage) == {i \in 1..Len(plTrace[m]) : plTrace[m][i].stage = stage}

NotInterleaved(m, s1, s2) ==
    \A i \in StagePositions(m, s1), j \in StagePositions(m, s2) : i < j

StrictlyBefore(m, n) ==
    LET this == PipelineStages[n]
        next == PipelineStages[n + 1]
    IN  /\ Before(m, this, "artifact", next, "start")
        /\ Before(m, this, "artifact", next, "audit")
        /\ NotInterleaved(m, this, next)

\* C31 as stated: for every message and every stage N, stage N+1 never
\* starts and never appends its audit event before stage N has written its
\* artifact, and the steps of the two stages are not interleaved.
C31_StagesStrictlyOrdered ==
    \A m \in PipelineMessages : \A n \in 1..(Len(PipelineStages) - 1) :
        StrictlyBefore(m, n)

\* C31, amended: the same for every pair of consecutive stages except
\* classify and extract, which one runner carries out together: extraction
\* starts after classification has started, each of artifact and audit
\* event of EXTRACT comes after the one of CLASSIFY, and the EXTRACT event is
\* appended after the classification artifact is written.
C31_StagesOrdered ==
    \A m \in PipelineMessages : \A n \in 1..(Len(PipelineStages) - 1) :
        IF PipelineStages[n] = "CLASSIFY"
        THEN /\ Before(m, "CLASSIFY", "start", "EXTRACT", "start")
             /\ Before(m, "CLASSIFY", "artifact", "EXTRACT", "artifact")
             /\ Before(m, "CLASSIFY", "artifact", "EXTRACT", "audit")
             /\ Before(m, "CLASSIFY", "audit", "EXTRACT", "audit")
        ELSE StrictlyBefore(m, n)

C31_Witness ==
    /\ plPc.status = "done"
    /\ \E m \in PipelineMessages : Pos(m, "HITL", "audit") # 0
    /\ \E m \in PipelineMessages : Pos(m, "HITL", "audit") = 0 /\ Pos(m, "CASE", "audit") # 0

\* C35: every event in an audit file names, as its output_ref, an artifact
\* that is fully in place at that time; and when a run has completed, every
\* stage artifact that was written has its stage's event in the message's
\* chain.
C35_ArtifactThenAudit ==
    /\ \A m \in PipelineMessages : \A i \in 1..Len(plAudit[m]) :
           LET ref == plAudit[m][i].output_ref
           IN  plFiles[ref[1]][ref[2]] = "file"
    /\ plPc.status = "done" =>
           \A m \in PipelineMessages : \A s \in StageSet :
               plFiles[m][s] = "file" =>
                   \E i \in 1..Len(plAudit[m]) : plAudit[m][i].stage = s

C35_Witness ==
    /\ plPc.status = "done"
    /\ \A m \in PipelineMessages : Len(plAudit[m]) = Len(PipelineStages)

\* Between tmp.replace and audit_logger.append the artifact is in place and
\* its event is not yet in the chain.
ArtifactAwaitingAudit ==
    \E m \in PipelineMessages :
        /\ plFiles[m]["ROUTE"] = "file"
        /\ \A i \in 1..Len(plAudit[m]) : plAudit[m][i].stage # "ROUTE"

(***************************************************************************)
(* Identity resolver: IdentityResolver.resolve of ieim/identity/resolver.py *)
(*                                                                         *)
(* Decimals are integers: weight * strength of a signal in thousandths,    *)
(* scores and thresholds in hundredths.  A score is quantized to two       *)
(* places, so its way through float and str(float) back to Decimal         *)
(* (lines 129, 185) gives the same hundredths.                             *)
(***************************************************************************)

HardSignals == {"SIG_CLAIM_NUMBER_LOOKUP_MATCH", "SIG_POLICY_NUMBER_LOOKUP_MATCH"}

IdentityConfigs ==
    [claim_signal : {860, 914}, policy_signal : {500, 855}, sender_signal : {55, 400},
     confirmed_min_score : {85}, confirmed_min_margin : {5, 20},
     probable_min_score : {60}, probable_min_margin : {5, 12},
     top_k : {1, 2}]

\* claim: a claim number is found and the claims adapter has its record;
\* policy: the same for a policy number; linked: the CRM links the sender's
\* address to that policy; high_risk: _is_high_risk_unresolved.
IdentityInputs ==
    [claim : BOOLEAN, policy : BOOLEAN, linked : BOOLEAN, high_risk : BOOLEAN]

SignalWeight(config, name) ==
    CASE name = "SIG_CLAIM_NUMBER_LOOKUP_MATCH" -> config.claim_signal
      [] name = "SIG_POLICY_NUMBER_LOOKUP_MATCH" -> config.policy_signal
      [] OTHER -> config.sender_signal

RECURSIVE SumSignals(_, _)
SumSignals(config, names) ==
    IF names = <<>> THEN 0
    ELSE SignalWeight(config, Head(names)) + SumSignals(config, Tail(names))

\* _score_from_signals with intercept 0 and slope 1: clamp to [0, 1], then
\* quantize to 0.01 with ROUND_HALF_UP.
score_from_signals(config, names) ==
    LET raw == SumSignals(config, names)
        clamped == IF raw < 0 THEN 0 ELSE IF raw > 1000 THEN 1000 ELSE raw
    IN  (clamped + 5) \div 10

Candidate(entity_type, names, config, has_medium) ==
    [entity_type |-> entity_type, score |-> score_from_signals(config, names),
     signals |-> names, has_hard |-> TRUE, has_medium |-> has_medium]

\* Lines 118-180: the candidates in the order they are appended.
Candidates(config, input) ==
    (IF input.claim
     THEN <<Candidate("CLAIM", <<"SIG_CLAIM_NUMBER_LOOKUP_MATCH">>, config, FALSE)>>
     ELSE <<>>)
    \o
    (IF input.policy
     THEN <<Candidate("POLICY",
                      IF input.linked
                      THEN <<"SIG_POLICY_NUMBER_LOOKUP_MATCH", "SIG_SENDER_EMAIL_MATCH">>
                      ELSE <<"SIG_POLICY_NUMBER_LOOKUP_MATCH">>,
                      config, input.linked)>>
     ELSE <<>>)

\* Line 182: sort by (-score, entity_type, entity_id); list.sort is stable
\* and "CLAIM" < "POLICY".
SortCandidates(cands) ==
    IF Len(cands) = 2 /\ cands[2].score > cands[1].score
    THEN <<cands[2], cands[1]>>
    ELSE cands

Ranked(cands, k) ==
    [i \in 1..(IF Len(cands) < k THEN Len(cands) ELSE k) |->
        [rank |-> i, entity_type |-> cands[i].entity_type, score |-> cands[i].score,
         signals |-> cands[i].signals]]

\* Lines 184-230 with the margin test of the confirmed branch left out.
IdentityDecision_NoMargin(config, candidates) ==
    IF candidates = <<>> THEN "none"
    ELSE LET top == candidates[1]
         IN  IF top.has_hard /\ top.score >= config.confirmed_min_score
             THEN "IDENTITY_CONFIRMED"
             ELSE "IDENTITY_NEEDS_REVIEW"

\* Lines 196-230: the status for a non-empty sorted candidate list.
IdentityDecision(config, candidates) ==
    IF candidates = <<>> THEN "none"
    ELSE LET top == candidates[1]
             top_score == top.score
             second_score == IF Len(candidates) > 1 THEN candidates[2].score ELSE 0
             margin == top_score - second_score
         IN  IF /\ top.has_hard
                /\ top_score >= config.confirmed_min_score
                /\ margin >= config.confirmed_min_margin
             THEN "IDENTITY_CONFIRMED"
             ELSE IF /\ top.has_medium
                     /\ top_score >= config.probable_min_score
                     /\ margin >= config.probable_min_margin
                  THEN "IDENTITY_PROBABLE"
                  ELSE "IDENTITY_NEEDS_REVIEW"

\* IdentityResolver.resolve: status, selected_candidate and top_k of the result.
resolve(config, input) ==
    LET candidates == SortCandidates(Candidates(config, input))
        status == IF candidates = <<>>
                  THEN (IF input.high_risk THEN "IDENTITY_NEEDS_REVIEW"
                        ELSE "IDENTITY_NO_CANDIDATE")
                  ELSE IdentityDecision(config, candidates)
        top_k == Ranked(candidates, config.top_k)
    IN  [status |-> status,
         selected_candidate |->
             IF status \in {"IDENTITY_CONFIRMED", "IDENTITY_PROBABLE"}
             THEN <<Ranked(candidates, 1)[1]>> ELSE NULL,
         top_k |-> top_k,
         scores |-> [i \in 1..Len(candidates) |-> candidates[i].score],
         request_info |-> status \in {"IDENTITY_NO_CANDIDATE", "IDENTITY_NEEDS_REVIEW"}]

NoIdentity ==
    [status |-> "none", selected_candidate |-> NULL, top_k |-> <<>>, scores |-> <<>>,
     request_info |-> FALSE]

Resolve ==
    /\ idResult = NoIdentity
    /\ idResult' = resolve(idConfig, idInput)
    /\ UNCHANGED <<idConfig, idInput, notIdentity>>

\* The resolver is used for the next message.
NextIdentityMessage(input) ==
    /\ idResult # NoIdentity
    /\ input # idInput
    /\ idInput' = input
    /\ idResult' = NoIdentity
    /\ UNCHANGED <<idConfig, notIdentity>>

NoIdentityInput ==
    /\ idConfig = [claim_signal |-> 860, policy_signal |-> 500, sender_signal |-> 55,
                   confirmed_min_score |-> 85, confirmed_min_margin |-> 5,
                   probable_min_score |-> 60, probable_min_margin |-> 5, top_k |-> 1]
    /\ idInput = [claim |-> FALSE, policy |-> FALSE, linked |-> FALSE, high_risk |-> FALSE]
    /\ idResult = NoIdentity

InitIdentity ==
    /\ idConfig \in IdentityConfigs
    /\ idInput \in IdentityInputs
    /\ idResult = NoIdentity

NextIdentity ==
    \/ Resolve
    \/ \E input \in IdentityInputs : NextIdentityMessage(input)

Resolved == idResult # NoIdentity

TopScore == idResult.scores[1]

Margin == TopScore - (IF Len(idResult.scores) > 1 THEN idResult.scores[2] ELSE 0)

NearTie == Len(idResult.scores) = 2 /\ Margin < idConfig.confirmed_min_margin

ConfirmedOnlyIf ==
    (Resolved /\ idResult.status = "IDENTITY_CONFIRMED") =>
        /\ \E i \in 1..Len(idResult.top_k[1].signals) :
               idResult.top_k[1].signals[i] \in HardSignals
        /\ TopScore >= idConfig.confirmed_min_score
        /\ Margin >= idConfig.confirmed_min_margin

\* C32 as stated: CONFIRMED only with a hard signal, the score and the
\* margin; and for a near-tie of two candidates the status is
\* IDENTITY_NEEDS_REVIEW, selected_candidate is null and the ranks are [1,2].
C32_NearTieNeedsReview ==
    /\ ConfirmedOnlyIf
    /\ (Resolved /\ NearTie) =>
           /\ idResult.status = "IDENTITY_NEEDS_REVIEW"
           /\ idResult.selected_candidate = NULL
           /\ [i \in 1..Len(idResult.top_k) |-> idResult.top_k[i].rank] = <<1, 2>>

\* C32, amended: CONFIRMED only with a hard signal, the score and the
\* margin; a near-tie of two candidates is never CONFIRMED: it is
\* IDENTITY_NEEDS_REVIEW with selected_candidate null unless the top
\* candidate has the medium signal and meets the probable thresholds, and
\* the top_k ranks are [1,2] when top_k is at least 2.
C32_NearTieNotConfirmed ==
    /\ ConfirmedOnlyIf
    /\ (Resolved /\ NearTie) =>
           /\ idResult.status # "IDENTITY_CONFIRMED"
           /\ IF /\ "SIG_SENDER_EMAIL_MATCH" \in
                        {idResult.top_k[1].signals[i] :
                            i \in 1..Len(idResult.top_k[1].signals)}
                 /\ TopScore >= idConfig.probable_min_score
                 /\ Margin >= idConfig.probable_min_margin
              THEN idResult.status = "IDENTITY_PROBABLE"
              ELSE /\ idResult.status = "IDENTITY_NEEDS_REVIEW"
                   /\ idResult.selected_candidate = NULL
           /\ idConfig.top_k >= 2 =>
                  [i \in 1..Len(idResult.top_k) |-> idResult.top_k[i].rank] = <<1, 2>>

\* The acceptance scenario: scores 0.91 and 0.86, confirmed_min_margin 0.20,
\* no CRM link.
C32_Witness ==
    /\ Resolved
    /\ idResult.scores = <<91, 86>>
    /\ idConfig.confirmed_min_margin = 20
    /\ ~idInput.linked
    /\ idResult.status = "IDENTITY_NEEDS_REVIEW"
    /\ idResult.selected_candidate = NULL
    /\ Len(idResult.top_k) = 2

(***************************************************************************)
(* Raw retention job (ieim/ops/retention.py).                              *)
(*                                                                         *)
(* The normalized records name a raw MIME object by URI and attachments by *)
(* id; an attachment artifact names the raw attachment by hash and the     *)
(* extracted text by URI.  The raw store is content-addressed, so two      *)
(* messages carrying the same bytes name the same object.  Time is counted *)
(* in days.                                                                *)
(***************************************************************************)
RetentionMessages == {1, 2}

MaxRetentionDay == 2

MaxRawDays == 1

\* A URI is a directory and a file name.
MimeUri(name) == <<"raw_store/mime", name>>

TextUri(name) == <<"raw_store/attachment_text", name>>

\* The raw MIME a message can carry: its own, or one both messages carry.
MimeChoices(m) == {MimeUri(IF m = 1 THEN "first" ELSE "second"), MimeUri("both")}

RetentionAttachments == {"att_shared", "att_old_only", "att_image"}

\* attachments/*.artifact.json as _load_attachment_infos reads them.
AttachmentInfos ==
    [a \in RetentionAttachments |->
        CASE a = "att_shared" ->
                [sha256 |-> Sha256("shared"), extracted_text_uri |-> <<TextUri("shared")>>]
          [] a = "att_old_only" ->
                [sha256 |-> Sha256("old_only"), extracted_text_uri |-> <<TextUri("old_only")>>]
          [] OTHER ->
                [sha256 |-> Sha256("image"), extracted_text_uri |-> NULL]]

AttachmentIdLists ==
    {{}, {"att_shared"}, {"att_shared", "att_old_only"}, {"att_old_only", "att_image"}}

\* The files of the stores: raw MIME and extracted text by URI, raw
\* attachments by the hex of their hash.
MimeFile(uri) == uri

AttachmentFile(hex) == <<"raw_store/attachments", hex>>

TextFile(uri) == uri

\* The objects one message brings into the stores (FileRawStore.put_bytes
\* by the ingest and attachment stages).
MessageObjects(nm) ==
    {MimeFile(nm.raw_mime_uri)}
        \cup {AttachmentFile(AttachmentInfos[a].sha256[2]) : a \in nm.attachment_ids}
        \cup {TextFile(AttachmentInfos[a].extracted_text_uri[1]) :
                a \in {b \in nm.attachment_ids : AttachmentInfos[b].extracted_text_uri # NULL}}

\* add_from: the hashes and text URIs a list of messages names.
AttachmentHashesOf(nms, attachment_infos) ==
    {attachment_infos[a].sha256 :
        a \in {b \in UNION {nm.attachment_ids : nm \in nms} : b \in DOMAIN attachment_infos}}

TextUrisOf(nms, attachment_infos) ==
    {attachment_infos[a].extracted_text_uri[1] :
        a \in {b \in UNION {nm.attachment_ids : nm \in nms} :
                  /\ b \in DOMAIN attachment_infos
                  /\ attachment_infos[b].extracted_text_uri # NULL}}

plan_raw_retention_ExpiredOnly(normalized_messages, attachment_infos, raw_days, now) ==
    LET cutoff == now - raw_days
        expired == {nm \in normalized_messages : nm.ingested_at < cutoff}
    IN  [cutoff_raw |-> cutoff,
         to_delete_raw_mime_uris |-> {nm.raw_mime_uri : nm \in expired},
         to_delete_attachment_hashes |-> AttachmentHashesOf(expired, attachment_infos),
         to_delete_extracted_text_uris |-> TextUrisOf(expired, attachment_infos)]

plan_raw_retention(normalized_messages, attachment_infos, raw_days, now) ==
    LET cutoff == now - raw_days
        expired == {nm \in normalized_messages : nm.ingested_at < cutoff}
        retained == {nm \in normalized_messages : ~(nm.ingested_at < cutoff)}
    IN  [cutoff_raw |-> cutoff,
         to_delete_raw_mime_uris |->
            {nm.raw_mime_uri : nm \in expired} \ {nm.raw_mime_uri : nm \in retained},
         to_delete_attachment_hashes |->
            AttachmentHashesOf(expired, attachment_infos)
                \ AttachmentHashesOf(retained, attachment_infos),
         to_delete_extracted_text_uris |->
            TextUrisOf(expired, attachment_infos) \ TextUrisOf(retained, attachment_infos)]

\* The files run_raw_retention hands to _delete_file for a plan: the MIME
\* and text URIs, and every stored attachment file whose name starts with
\* the hex of a planned hash.
PlannedFiles(plan, store) ==
    {MimeFile(uri) : uri \in plan.to_delete_raw_mime_uris}
        \cup {f \in store :
                /\ f[1] = "raw_store/attachments"
                /\ \E sha \in plan.to_delete_attachment_hashes :
                      sha[1] = "sha256" /\ f[2] = sha[2]}
        \cup {TextFile(uri) : uri \in plan.to_delete_extracted_text_uris}

\* _delete_file: a missing file is reported MISSING, a dry run unlinks
\* nothing, otherwise the file is unlinked.
DeletedFiles(plan, store, dry_run) ==
    IF dry_run THEN {} ELSE PlannedFiles(plan, store) \cap store

NoReport == [status |-> "NONE", now |-> 0, raw_days |-> 0, candidates |-> {}, deleted |-> {}]

\* A message is ingested on the current day and its objects are stored.
RetentionIngest(m, mime, atts) ==
    /\ \A nm \in rtMessages : nm.message_id # m
    /\ LET nm == [message_id |-> m, ingested_at |-> rtNow,
                  raw_mime_uri |-> mime, attachment_ids |-> atts]
       IN  /\ rtMessages' = rtMessages \cup {nm}
           /\ rtStore' = rtStore \cup MessageObjects(nm)
    /\ UNCHANGED <<rtNow, rtLast>>
    /\ UNCHANGED notRetention

RetentionDayPasses ==
    /\ rtNow < MaxRetentionDay
    /\ rtNow' = rtNow + 1
    /\ UNCHANGED <<rtMessages, rtStore, rtLast>>
    /\ UNCHANGED notRetention

run_raw_retention(raw_days, dry_run) ==
    LET plan == plan_raw_retention(rtMessages, AttachmentInfos, raw_days, rtNow)
        deleted == DeletedFiles(plan, rtStore, dry_run)
    IN  /\ rtStore' = rtStore \ deleted
        /\ rtLast' = [status |-> IF dry_run THEN "DRY_RUN" ELSE "APPLIED",
                      now |-> rtNow,
                      raw_days |-> raw_days,
                      candidates |-> PlannedFiles(plan, rtStore),
                      deleted |-> deleted]
        /\ UNCHANGED <<rtNow, rtMessages>>
        /\ UNCHANGED notRetention

NoRetentionInput ==
    /\ rtNow = 0
    /\ rtMessages = {}
    /\ rtStore = {}
    /\ rtLast = NoReport

InitRetentionJob == NoRetentionInput

NextRetention ==
    \/ \E m \in RetentionMessages, atts \in AttachmentIdLists :
          \E mime \in MimeChoices(m) : RetentionIngest(m, mime, atts)
    \/ RetentionDayPasses
    \/ \E raw_days \in 0..MaxRawDays, dry_run \in BOOLEAN :
          run_raw_retention(raw_days, dry_run)

\* The messages whose record names a stored file.
ReferencingMessages(f) == {nm \in rtMessages : f \in MessageObjects(nm)}

\* A retention run has just produced a new report.
RetentionRan == rtLast' # rtLast

\* C33: a raw MIME, raw attachment or extracted-text object leaves the
\* store only if every message referencing it was ingested before now
\* minus raw_days, so an object that a retained message references is
\* never deleted; and a dry run deletes nothing.
C33_DeletesOnlyExpiredUnreferenced ==
    [][/\ \A f \in rtStore \ rtStore' :
            /\ RetentionRan
            /\ rtLast'.status = "APPLIED"
            /\ \A nm \in ReferencingMessages(f) :
                  nm.ingested_at < rtNow - rtLast'.raw_days
       /\ (RetentionRan /\ rtLast'.status = "DRY_RUN") => rtStore' = rtStore]_vars

\* An applied run deleted the objects only an expired message names and
\* kept an object that an expired and a retained message share; a dry run
\* of the same plan would have had candidates.
C33_Witness ==
    /\ rtLast.status = "APPLIED"
    /\ rtLast.deleted # {}
    /\ \E f \in rtStore : \E old, new \in ReferencingMessages(f) :
          /\ old.ingested_at < rtLast.now - rtLast.raw_days
          /\ ~(new.ingested_at < rtLast.now - rtLast.raw_days)

(***************************************************************************)
(* The daily call counter under concurrent callers (llm/file_cache.py      *)
(* 97-139, llm/adapter.py 155-158).  Every caller is a process or thread   *)
(* inside LLMAdapter._call after a cache miss; a step is one access to the *)
(* counter file.  All callers run on the same day.                         *)
(***************************************************************************)
CounterCallers == {1, 2, 3}

CounterCaps == {1, 2}

\* DailyCallCounter.can_consume (125-132): one read of the file.  A caller
\* refused here raises "LLM daily call cap reached".
CounterCanConsume(c) ==
    /\ ctrPc[c] = "call"
    /\ ctrPc' = [ctrPc EXCEPT ![c] =
                    IF can_consume([d \in {0} |-> ctrFile], 0, ctrMax)
                    THEN "consume" ELSE "refused"]
    /\ UNCHANGED <<ctrMax, ctrFile, ctrTmp, ctrRead, ctrConsumed, ctrCalls>>
    /\ UNCHANGED notCounter

\* DailyCallCounter.consume, _load (135): a second read of the file.
CounterLoad(c) ==
    /\ ctrPc[c] = "consume"
    /\ ctrRead' = [ctrRead EXCEPT ![c] = ctrFile]
    /\ ctrPc' = [ctrPc EXCEPT ![c] = "store"]
    /\ UNCHANGED <<ctrMax, ctrFile, ctrTmp, ctrConsumed, ctrCalls>>
    /\ UNCHANGED notCounter

\* DailyCallCounter._store, tmp.write_bytes (122): the incremented count is
\* written to the temporary file every caller shares.
CounterWriteTmp(c) ==
    /\ ctrPc[c] = "store"
    /\ ctrTmp' = <<consume([d \in {0} |-> ctrRead[c]], 0)[0]>>
    /\ ctrPc' = [ctrPc EXCEPT ![c] = "replace"]
    /\ UNCHANGED <<ctrMax, ctrFile, ctrRead, ctrConsumed, ctrCalls>>
    /\ UNCHANGED notCounter

\* DailyCallCounter._store, tmp.replace (123), and the provider call that
\* follows the return of consume (adapter.py 158-166).  When another caller
\* has already renamed the temporary file away, replace raises
\* FileNotFoundError and the caller makes no provider call.
CounterReplace(c) ==
    /\ ctrPc[c] = "replace"
    /\ IF ctrTmp = NULL
       THEN /\ ctrPc' = [ctrPc EXCEPT ![c] = "raised"]
            /\ UNCHANGED <<ctrFile, ctrTmp, ctrConsumed, ctrCalls>>
       ELSE /\ ctrFile' = ctrTmp[1]
            /\ ctrTmp' = NULL
            /\ ctrConsumed' = ctrConsumed + 1
            /\ ctrCalls' = ctrCalls + 1
            /\ ctrPc' = [ctrPc EXCEPT ![c] = "provider"]
    /\ UNCHANGED <<ctrMax, ctrRead>>
    /\ UNCHANGED notCounter

NoCounterInput ==
    /\ ctrMax = 1
    /\ ctrFile = 0
    /\ ctrTmp = NULL
    /\ ctrPc = [c \in CounterCallers |-> "call"]
    /\ ctrRead = [c \in CounterCallers |-> 0]
    /\ ctrConsumed = 0
    /\ ctrCalls = 0

\* A fresh day: no call counted yet, every caller about to check the cap.
InitCounter ==
    /\ ctrMax \in CounterCaps
    /\ ctrFile = 0
    /\ ctrTmp = NULL
    /\ ctrPc = [c \in CounterCallers |-> "call"]
    /\ ctrRead = [c \in CounterCallers |-> 0]
    /\ ctrConsumed = 0
    /\ ctrCalls = 0

NextCounter ==
    \E c \in CounterCallers :
        \/ CounterCanConsume(c)
        \/ CounterLoad(c)
        \/ CounterWriteTmp(c)
        \/ CounterReplace(c)

\* C34: with several callers checking and consuming the counter at the
\* same time, no increment is lost (the stored count is the number of
\* consume calls that returned) and the callers together make no more than
\* max_calls_per_day provider calls on the day.
C34_CounterUnderLock ==
    /\ ctrCalls <= ctrMax
    /\ (\A c \in CounterCallers : ctrPc[c] \notin {"store", "replace"}) =>
            ctrFile = ctrConsumed

\* The part of C34 that holds without a lock: the stored count never
\* exceeds the number of consume calls that returned, and a caller that
\* finds the count at the cap is refused.
CounterNeverOvercounts ==
    /\ ctrFile <= ctrConsumed
    /\ \A c \in CounterCallers : ctrPc[c] = "refused" => ctrConsumed >= ctrMax

(***************************************************************************)
(* Paging of the mail adapters (ingest/filesystem_adapter.py 111-125,      *)
(* ingest/m365_graph_adapter.py 68-111).                                   *)
(*                                                                         *)
(* The mailbox holds the messages 1..NumMailMessages; ids sort as the      *)
(* numbers do.  The Graph service honours the $top of the start URL and    *)
(* keeps that page size in the nextLinks it hands out, as the fake         *)
(* requester of the adapter's test does; after the last page it hands out  *)
(* a deltaLink whose page is empty.                                        *)
(***************************************************************************)
NumMailMessages == 5

MaxPageLimit == 2

MailAdapters == {"filesystem", "m365_graph"}

MailboxIds == [i \in 1..NumMailMessages |-> i]

\* FilesystemMailIngestAdapter.list_message_refs
FilesystemListMessageRefs(cursor, limit) ==
    LET ids == IF cursor = NULL THEN MailboxIds
               ELSE SelectSeq(MailboxIds, LAMBDA mid : mid > cursor[1])
        selected == SubSeq(ids, 1, IF Len(ids) < limit THEN Len(ids) ELSE limit)
    IN  [refs |-> selected,
         cursor |-> IF selected # <<>> THEN <<selected[Len(selected)]>> ELSE cursor]

\* The URLs of the Graph service: the start URL carries $top, a nextLink
\* the offset reached and the page size, the deltaLink nothing more.
StartUrl(top) == [link |-> "start", offset |-> 0, top |-> top]

DeltaLink == [link |-> "delta", offset |-> NumMailMessages, top |-> 0]

\* The response of the service to a GET of url.
GraphResponse(url) ==
    LET last == IF url.offset + url.top < NumMailMessages
                THEN url.offset + url.top ELSE NumMailMessages
        value == IF url.link = "delta" THEN <<>> ELSE SubSeq(MailboxIds, url.offset + 1, last)
    IN  IF url.link # "delta" /\ last < NumMailMessages
        THEN [value |-> value,
              nextLink |-> <<[link |-> "next", offset |-> last, top |-> url.top]>>,
              deltaLink |-> NULL]
        ELSE [value |-> value, nextLink |-> NULL, deltaLink |-> <<DeltaLink>>]

\* M365GraphMailIngestAdapter.list_message_refs
GraphListMessageRefs(cursor, limit) ==
    LET url == IF cursor # NULL THEN cursor[1] ELSE StartUrl(limit)
        data == GraphResponse(url)
        refs == data.value
    IN  IF Len(refs) >= limit /\ data.nextLink # NULL
        THEN [refs |-> SubSeq(refs, 1, limit), cursor |-> data.nextLink]
        ELSE IF data.nextLink # NULL
        THEN [refs |-> refs, cursor |-> data.nextLink]
        ELSE IF data.deltaLink # NULL
        THEN [refs |-> refs, cursor |-> data.deltaLink]
        ELSE [refs |-> refs, cursor |-> cursor]

\* One call of the filesystem adapter with the cursor of the previous call.
FilesystemPage(limit) ==
    LET page == FilesystemListMessageRefs(pgCursor["filesystem"], limit)
    IN  /\ limit >= 1
        /\ pgCursor' = [pgCursor EXCEPT !["filesystem"] = page.cursor]
        /\ pgSeen' = [pgSeen EXCEPT !["filesystem"] = @ \o page.refs]
        /\ pgLimits' = [pgLimits EXCEPT !["filesystem"] = @ \cup {limit}]
        /\ UNCHANGED notPaging

\* One call of the Graph adapter with the cursor of the previous call.
GraphPage(limit) ==
    LET page == GraphListMessageRefs(pgCursor["m365_graph"], limit)
    IN  /\ limit >= 1
        /\ pgCursor' = [pgCursor EXCEPT !["m365_graph"] = page.cursor]
        /\ pgSeen' = [pgSeen EXCEPT !["m365_graph"] = @ \o page.refs]
        /\ pgLimits' = [pgLimits EXCEPT !["m365_graph"] = @ \cup {limit}]
        /\ UNCHANGED notPaging

NoPagingInput ==
    /\ pgCursor = [a \in MailAdapters |-> NULL]
    /\ pgSeen = [a \in MailAdapters |-> <<>>]
    /\ pgLimits = [a \in MailAdapters |-> {}]

InitPaging == NoPagingInput

NextPaging ==
    \/ \E limit \in 1..MaxPageLimit : FilesystemPage(limit)
    \/ \E limit \in 1..MaxPageLimit : GraphPage(limit)

\* The refs returned so far are the first messages of the mailbox, each
\* once and in the mailbox order.
PagedInOrder(adapter) ==
    /\ Len(pgSeen[adapter]) <= NumMailMessages
    /\ pgSeen[adapter] = SubSeq(MailboxIds, 1, Len(pgSeen[adapter]))

\* Paging has come to its end: a further call returns no ref.
PagingDone(adapter) ==
    IF adapter = "filesystem"
    THEN FilesystemListMessageRefs(pgCursor[adapter], 1).refs = <<>>
    ELSE pgCursor[adapter] # NULL /\ GraphResponse(pgCursor[adapter][1]).value = <<>>

\* C36: paging either adapter with the cursor of the previous call returns
\* every message of the mailbox exactly once and in a stable order for any
\* limit >= 1; no message is skipped when a page holds more messages than
\* the limit, and none is returned twice.
C36_PagingExactlyOnce ==
    \A adapter \in MailAdapters :
        /\ PagedInOrder(adapter)
        /\ PagingDone(adapter) => Len(pgSeen[adapter]) = NumMailMessages

\* The filesystem adapter pages exactly once for any limits, and the Graph
\* adapter does as long as every call passes the same limit.
PagingExactlyOnceSameLimit ==
    /\ PagedInOrder("filesystem")
    /\ PagingDone("filesystem") => Len(pgSeen["filesystem"]) = NumMailMessages
    /\ Cardinality(pgLimits["m365_graph"]) <= 1 =>
          /\ PagedInOrder("m365_graph")
          /\ PagingDone("m365_graph") => Len(pgSeen["m365_graph"]) = NumMailMessages

(***************************************************************************)
(* RabbitMQ broker (ieim/broker/rabbitmq.py).                              *)
(*                                                                         *)
(* One client on one channel and one work queue.  The server keeps a       *)
(* delivery unacknowledged until basic_ack or basic_nack; a delivery       *)
(* rejected with basic_nack(requeue=False) is dead-lettered by the server  *)
(* through the queue's x-dead-letter-exchange with its headers unchanged.  *)
(***************************************************************************)
MaxAttempts == 3

BrokerBodies == {1, 2}

MaxGet == 2

\* nack line 146: the republished message goes to the dead-letter queue.
DeadLetters_After(next_attempt, max_attempts) == next_attempt > max_attempts

DeadLetters(next_attempt, max_attempts) == next_attempt >= max_attempts

NoHistory == [published |-> FALSE, delivered |-> <<>>, ends |-> {}]

\* RabbitMQBroker.publish: the message enters the work queue with
\* x-ieim-attempt 0.
BrokerPublish(body) ==
    /\ ~bkHist[body].published
    /\ bkQueue' = Append(bkQueue, [body |-> body, attempt |-> 0])
    /\ bkHist' = [bkHist EXCEPT ![body].published = TRUE]
    /\ UNCHANGED <<bkMax, bkDlq, bkUnacked, bkInflight, bkTag, bkPc>>
    /\ UNCHANGED notBroker

\* RabbitMQBroker.consume(max_messages): basic_get until the queue is empty
\* or max_messages are taken; every message taken is in flight with the
\* attempt count of its header.
BrokerConsume(max_messages) ==
    LET n == IF Len(bkQueue) < max_messages THEN Len(bkQueue) ELSE max_messages
        got == {[delivery_tag |-> bkTag + i - 1,
                 body |-> bkQueue[i].body,
                 attempts |-> bkQueue[i].attempt] : i \in 1..n}
    IN  /\ bkPc = NULL
        /\ n >= 1
        /\ bkQueue' = SubSeq(bkQueue, n + 1, Len(bkQueue))
        /\ bkUnacked' = bkUnacked \cup got
        /\ bkInflight' = bkInflight \cup got
        /\ bkTag' = bkTag + n
        /\ bkHist' = [b \in BrokerBodies |->
                        [bkHist[b] EXCEPT !.delivered =
                            @ \o [j \in 1..Cardinality({d \in got : d.body = b}) |->
                                     (CHOOSE d \in got : d.body = b).attempts]]]
        /\ UNCHANGED <<bkMax, bkDlq, bkPc>>
        /\ UNCHANGED notBroker

\* RabbitMQBroker.ack
BrokerAck(d) ==
    /\ bkPc = NULL
    /\ d \in bkInflight
    /\ bkInflight' = bkInflight \ {d}
    /\ bkUnacked' = bkUnacked \ {d}
    /\ bkHist' = [bkHist EXCEPT ![d.body].ends = @ \cup {"ack"}]
    /\ UNCHANGED <<bkMax, bkQueue, bkDlq, bkTag, bkPc>>
    /\ UNCHANGED notBroker

\* RabbitMQBroker.nack(requeue=True) up to the basic_publish (137-168):
\* the body is published again with the attempt count raised by one, to
\* the dead-letter queue when the count reaches max_attempts, else to the
\* work queue.
BrokerNackPublish(d) ==
    LET next_attempt == d.attempts + 1
        copy == [body |-> d.body, attempt |-> next_attempt]
    IN  /\ bkPc = NULL
        /\ d \in bkInflight
        /\ bkInflight' = bkInflight \ {d}
        /\ IF DeadLetters(next_attempt, bkMax)
           THEN /\ bkDlq' = Append(bkDlq, copy)
                /\ UNCHANGED bkQueue
           ELSE /\ bkQueue' = Append(bkQueue, copy)
                /\ UNCHANGED bkDlq
        /\ bkPc' = <<d>>
        /\ UNCHANGED <<bkMax, bkUnacked, bkTag, bkHist>>
        /\ UNCHANGED notBroker

\* RabbitMQBroker.nack(requeue=True), the basic_ack of the original
\* delivery (157, 169).
BrokerNackAck ==
    /\ bkPc # NULL
    /\ bkUnacked' = bkUnacked \ {bkPc[1]}
    /\ bkHist' = [bkHist EXCEPT ![bkPc[1].body].ends = @ \cup {"requeue"}]
    /\ bkPc' = NULL
    /\ UNCHANGED <<bkMax, bkQueue, bkDlq, bkInflight, bkTag>>
    /\ UNCHANGED notBroker

\* RabbitMQBroker.nack(requeue=False): basic_nack without requeue (172);
\* the server dead-letters the delivery as it is.
BrokerNackReject(d) ==
    /\ bkPc = NULL
    /\ d \in bkInflight
    /\ bkInflight' = bkInflight \ {d}
    /\ bkUnacked' = bkUnacked \ {d}
    /\ bkDlq' = Append(bkDlq, [body |-> d.body, attempt |-> d.attempts])
    /\ bkHist' = [bkHist EXCEPT ![d.body].ends = @ \cup {"reject"}]
    /\ UNCHANGED <<bkMax, bkQueue, bkTag, bkPc>>
    /\ UNCHANGED notBroker

NoBrokerInput ==
    /\ bkMax = 1
    /\ bkQueue = <<>>
    /\ bkDlq = <<>>
    /\ bkUnacked = {}
    /\ bkInflight = {}
    /\ bkTag = 1
    /\ bkPc = NULL
    /\ bkHist = [b \in BrokerBodies |-> NoHistory]

\* RabbitMQBroker.__init__ accepts any max_attempts > 0.
InitBroker ==
    /\ bkMax \in 1..MaxAttempts
    /\ bkQueue = <<>>
    /\ bkDlq = <<>>
    /\ bkUnacked = {}
    /\ bkInflight = {}
    /\ bkTag = 1
    /\ bkPc = NULL
    /\ bkHist = [b \in BrokerBodies |-> NoHistory]

NextBroker ==
    \/ \E body \in BrokerBodies : BrokerPublish(body)
    \/ \E max_messages \in 1..MaxGet : BrokerConsume(max_messages)
    \/ \E d \in bkInflight : BrokerAck(d)
    \/ \E d \in bkInflight : BrokerNackPublish(d)
    \/ BrokerNackAck
    \/ \E d \in bkInflight : BrokerNackReject(d)

\* The copies of a body the server holds: in the work queue, in the
\* dead-letter queue, and unacknowledged.
InQueue(q, body) == {i \in 1..Len(q) : q[i].body = body}

Copies(body) ==
    Cardinality(InQueue(bkQueue, body)) + Cardinality(InQueue(bkDlq, body))
        + Cardinality({d \in bkUnacked : d.body = body})

\* Every delivery of the body that has ended was nacked with requeue=True.
AlwaysRequeued(body) == bkHist[body].published /\ bkHist[body].ends \subseteq {"requeue"}

\* C39: a message whose every delivery is nacked with requeue=True is
\* delivered at most max_attempts times, with the attempt counts 0, 1, 2,
\* ... in turn; it reaches the dead-letter queue only with the count
\* max_attempts, after max_attempts deliveries, and is then not in the work
\* queue; and at no moment has it been acked away without a copy in the
\* work queue or the dead-letter queue.
C39_RequeueUntilDeadLetter ==
    \A body \in BrokerBodies :
        AlwaysRequeued(body) =>
            /\ Len(bkHist[body].delivered) <= bkMax
            /\ \A k \in 1..Len(bkHist[body].delivered) : bkHist[body].delivered[k] = k - 1
            /\ \A i \in InQueue(bkQueue, body) : bkQueue[i].attempt < bkMax
            /\ \A i \in InQueue(bkDlq, body) :
                  /\ bkDlq[i].attempt = bkMax
                  /\ Len(bkHist[body].delivered) = bkMax
                  /\ InQueue(bkQueue, body) = {}
            /\ Copies(body) >= 1
            /\ (bkPc = NULL \/ bkPc[1].body # body) => Copies(body) = 1

\* A message has been delivered max_attempts times, more than once, nacked
\* with requeue=True every time, and lies in the dead-letter queue.
C39_Witness ==
    \E body \in BrokerBodies :
        /\ AlwaysRequeued(body)
        /\ bkMax > 1
        /\ bkPc = NULL
        /\ Len(bkHist[body].delivered) = bkMax
        /\ InQueue(bkDlq, body) # {}

(***************************************************************************)
(* Specifications                                                          *)
(***************************************************************************)

\* Outside the routing specification the evaluator has one fixed input.
NoRouteInput ==
    /\ routeRuleset = [rules |-> <<>>, fallback_fail_closed |-> TRUE]
    /\ routeIncident = [force_review |-> FALSE, block_flags |-> {}]
    /\ routeCtx = [risk_flags |-> {}, primary_intent |-> "INTENT_GENERAL_INQUIRY",
                   identity_status |-> "IDENTITY_CONFIRMED", product_line |-> "PROD_UNKNOWN"]
    /\ routeOut = NotEvaluated

Init ==
    /\ InitAudit
    /\ InitStore
    /\ InitIngest
    /\ InitStage
    /\ InitCase
    /\ InitRunner
    /\ NoRouteInput
    /\ InitHitl
    /\ NoReviewInput
    /\ NoAttachInput
    /\ NoLlmInput
    /\ InitVerify
    /\ NoReprocessInput
    /\ NoPipelineInput
    /\ NoIdentityInput
    /\ NoRetentionInput
    /\ NoCounterInput
    /\ NoPagingInput
    /\ NoBrokerInput

SpecAuditSeq == Init /\ [][NextAuditSeq]_vars

SpecAuditConc == Init /\ [][NextAuditConc]_vars

SpecStoreSeq == Init /\ [][NextStoreSeq]_vars

SpecStoreConc == Init /\ [][NextStoreConc]_vars

SpecIngest == Init /\ [][NextIngest]_vars

SpecStage == Init /\ [][NextStage]_vars

SpecAdapter == Init /\ [][NextAdapter]_vars

SpecAdapterAnyCase == Init /\ [][NextAdapterAnyCase]_vars

SpecCase == Init /\ [][NextCase]_vars

SpecRunner == Init /\ [][NextRunner]_vars

\* The routing specification starts from any ruleset, incident setting and
\* routing context of the model.
InitRouting ==
    /\ InitAudit
    /\ InitStore
    /\ InitIngest
    /\ InitStage
    /\ InitCase
    /\ InitRunner
    /\ InitRoute
    /\ InitHitl
    /\ NoReviewInput
    /\ NoAttachInput
    /\ NoLlmInput
    /\ InitVerify
    /\ NoReprocessInput
    /\ NoPipelineInput
    /\ NoIdentityInput
    /\ NoRetentionInput
    /\ NoCounterInput
    /\ NoPagingInput
    /\ NoBrokerInput

SpecRoute == InitRouting /\ [][NextRoute]_vars

SpecHitl == Init /\ [][NextHitl]_vars

\* The review specification starts from any routing decision, draft
\* directory and role mapping of the model.
InitReview ==
    /\ InitAudit
    /\ InitStore
    /\ InitIngest
    /\ InitStage
    /\ InitCase
    /\ InitRunner
    /\ NoRouteInput
    /\ InitReviewInput
    /\ reviewItem = CurrentItemBytes
    /\ correctionFiles = [c \in DraftCorrectionIds(routingFile, draftDir) |-> NoArtifact]
    /\ clock = 0
    /\ lastSubmit = NoSubmit
    /\ NoAttachInput
    /\ NoLlmInput
    /\ InitVerify
    /\ NoReprocessInput
    /\ NoPipelineInput
    /\ NoIdentityInput
    /\ NoRetentionInput
    /\ NoCounterInput
    /\ NoPagingInput
    /\ NoBrokerInput

SpecReview == InitReview /\ [][NextReview]_vars

InitAttachments ==
    /\ InitAudit
    /\ InitStore
    /\ InitIngest
    /\ InitStage
    /\ InitCase
    /\ InitRunner
    /\ NoRouteInput
    /\ InitHitl
    /\ NoReviewInput
    /\ InitAttach
    /\ NoLlmInput
    /\ InitVerify
    /\ NoReprocessInput
    /\ NoPipelineInput
    /\ NoIdentityInput
    /\ NoRetentionInput
    /\ NoCounterInput
    /\ NoPagingInput
    /\ NoBrokerInput

SpecAttach == InitAttachments /\ [][NextAttach]_vars

InitLlmStage ==
    /\ InitAudit
    /\ InitStore
    /\ InitIngest
    /\ InitStage
    /\ InitCase
    /\ InitRunner
    /\ NoRouteInput
    /\ InitHitl
    /\ NoReviewInput
    /\ NoAttachInput
    /\ InitLlm
    /\ InitVerify
    /\ NoReprocessInput
    /\ NoPipelineInput
    /\ NoIdentityInput
    /\ NoRetentionInput
    /\ NoCounterInput
    /\ NoPagingInput
    /\ NoBrokerInput

SpecLlm == InitLlmStage /\ [][NextLlm]_vars

SpecVerify == Init /\ [][NextVerify]_vars

InitReprocess ==
    /\ InitAudit
    /\ InitStore
    /\ InitIngest
    /\ InitStage
    /\ InitCase
    /\ InitRunner
    /\ NoRouteInput
    /\ InitHitl
    /\ NoReviewInput
    /\ NoAttachInput
    /\ NoLlmInput
    /\ InitVerify
    /\ InitReprocessJob
    /\ NoPipelineInput
    /\ NoIdentityInput
    /\ NoRetentionInput
    /\ NoCounterInput
    /\ NoPagingInput
    /\ NoBrokerInput

SpecReprocess == InitReprocess /\ [][NextReprocess]_vars

InitPipeline ==
    /\ InitAudit
    /\ InitStore
    /\ InitIngest
    /\ InitStage
    /\ InitCase
    /\ InitRunner
    /\ NoRouteInput
    /\ InitHitl
    /\ NoReviewInput
    /\ NoAttachInput
    /\ NoLlmInput
    /\ InitVerify
    /\ NoReprocessInput
    /\ InitPipelineRun
    /\ NoIdentityInput
    /\ NoRetentionInput
    /\ NoCounterInput
    /\ NoPagingInput
    /\ NoBrokerInput

SpecPipeline == InitPipeline /\ [][NextPipeline]_vars

InitResolver ==
    /\ InitAudit
    /\ InitStore
    /\ InitIngest
    /\ InitStage
    /\ InitCase
    /\ InitRunner
    /\ NoRouteInput
    /\ InitHitl
    /\ NoReviewInput
    /\ NoAttachInput
    /\ NoLlmInput
    /\ InitVerify
    /\ NoReprocessInput
    /\ NoPipelineInput
    /\ InitIdentity
    /\ NoRetentionInput
    /\ NoCounterInput
    /\ NoPagingInput
    /\ NoBrokerInput

SpecIdentity == InitResolver /\ [][NextIdentity]_vars

InitRetention ==
    /\ InitAudit
    /\ InitStore
    /\ InitIngest
    /\ InitStage
    /\ InitCase
    /\ InitRunner
    /\ NoRouteInput
    /\ InitHitl
    /\ NoReviewInput
    /\ NoAttachInput
    /\ NoLlmInput
    /\ InitVerify
    /\ NoReprocessInput
    /\ NoPipelineInput
    /\ NoIdentityInput
    /\ InitRetentionJob
    /\ NoCounterInput
    /\ NoPagingInput
    /\ NoBrokerInput

SpecRetention == InitRetention /\ [][NextRetention]_vars

InitDailyCounter ==
    /\ InitAudit
    /\ InitStore
    /\ InitIngest
    /\ InitStage
    /\ InitCase
    /\ InitRunner
    /\ NoRouteInput
    /\ InitHitl
    /\ NoReviewInput
    /\ NoAttachInput
    /\ NoLlmInput
    /\ InitVerify
    /\ NoReprocessInput
    /\ NoPipelineInput
    /\ NoIdentityInput
    /\ NoRetentionInput
    /\ InitCounter
    /\ NoPagingInput
    /\ NoBrokerInput

SpecCounter == InitDailyCounter /\ [][NextCounter]_vars

InitMailPaging ==
    /\ InitAudit
    /\ InitStore
    /\ InitIngest
    /\ InitStage
    /\ InitCase
    /\ InitRunner
    /\ NoRouteInput
    /\ InitHitl
    /\ NoReviewInput
    /\ NoAttachInput
    /\ NoLlmInput
    /\ InitVerify
    /\ NoReprocessInput
    /\ NoPipelineInput
    /\ NoIdentityInput
    /\ NoRetentionInput
    /\ NoCounterInput
    /\ InitPaging
    /\ NoBrokerInput

SpecPaging == InitMailPaging /\ [][NextPaging]_vars

InitRabbitMQ ==
    /\ InitAudit
    /\ InitStore
    /\ InitIngest
    /\ InitStage
    /\ InitCase
    /\ InitRunner
    /\ NoRouteInput
    /\ InitHitl
    /\ NoReviewInput
    /\ NoAttachInput
    /\ NoLlmInput
    /\ InitVerify
    /\ NoReprocessInput
    /\ NoPipelineInput
    /\ NoIdentityInput
    /\ NoRetentionInput
    /\ NoCounterInput
    /\ NoPagingInput
    /\ InitBroker

SpecBroker == InitRabbitMQ /\ [][NextBroker]_vars

Spec == SpecAuditSeq

====
